---- MODULE Spec2Model ----
(***************************************************************************)
(* A model of the Wiktionary definition extractor                          *)
(* (src/telegram/wiktionary_define_and_collapse.py).                       *)
(*                                                                         *)
(* Text is a TLA+ string, i.e. a sequence of characters; positions are     *)
(* 1-based (Python index i is position i+1).  The Python string methods    *)
(* and the regular expressions the program uses are written out as         *)
(* operators on strings.                                                   *)
(***************************************************************************)
EXTENDS Integers, Sequences, FiniteSets, TLC

VARIABLES
    \* ---- the extraction pipeline (main / parse_definitions) ----
    words,                  \* main: the input word list, in input order
    dump,                   \* the page records of the dump, in dump order
    pc,                     \* where main is: pass1, pass2, output, done, crashed
    idx,                    \* number of page records already streamed in this pass
    passes,                 \* number of scans of the dump started so far
    targets,                \* parse_definitions: the local target set of the scan
    seen,                   \* main: seen (pass 1)
    extra_seen,             \* main: extra_seen (pass 2)
    definitions,            \* key -> list of (language, pos, text)
    form_of_map,            \* key -> set of lemmas
    alt_variant_map,        \* key -> set of alternative-spelling bases
    alt_spellings_by_base,  \* base -> set of keys
    extra_targets,          \* main: extra_targets
    output_words,           \* main: output_words
    output,                 \* the lines written to the output file
    missing,                \* main: missing
    held,                   \* parse_definitions: the page elements read and not cleared
    \* ---- the section walker (extract_definitions), one line per step ----
    w_lines,                \* the lines of the page being walked
    w_idx,                  \* number of lines already processed
    current_language,
    current_pos,
    w_definitions,          \* the running entry list
    w_emitted,              \* every entry a gloss line produced, duplicates kept
    \* ---- the form resolver (_extract_form_of_base), applied to one input ----
    f_word,
    f_text,
    f_result,
    \* ---- the bracket scanner (_extract_template), one loop iteration per step ----
    s_text,                 \* text
    s_start,                \* start, as a position (Python index + 1)
    s_idx,                  \* idx, as a position
    s_depth,                \* depth
    s_steps,                \* loop iterations made so far
    s_result,               \* the value returned, once the call has returned
    \* ---- a template function applied to one input ----
    t_text,
    t_result

pipeline_vars == <<words, dump, pc, idx, passes, targets, seen, extra_seen,
                   definitions, form_of_map, alt_variant_map,
                   alt_spellings_by_base, extra_targets, output_words, output,
                   missing, held>>
walker_vars == <<w_lines, w_idx, current_language, current_pos, w_definitions,
                 w_emitted>>
form_vars == <<f_word, f_text, f_result>>
scanner_vars == <<s_text, s_start, s_idx, s_depth, s_steps, s_result>>
template_vars == <<scanner_vars, t_text, t_result>>
vars == <<pipeline_vars, walker_vars, form_vars, template_vars>>

-----------------------------------------------------------------------------
(* Python str methods *)

UpperCase == "ABCDEFGHIJKLMNOPQRSTUVWXYZ"
LowerCase == "abcdefghijklmnopqrstuvwxyz"
Digits == "0123456789"
\* The characters of the model in code-point order, as str comparison uses.
CodePoints ==
    "\t\n !#()*,-.:;=?" \o Digits \o UpperCase \o "[]" \o LowerCase \o "{|}"
\* str.strip() and the regex class \s
Whitespace == {" ", "\n", "\t"}

CharAt(s, i) == SubSeq(s, i, i)
InStr(c, tbl) == \E i \in 1..Len(tbl) : CharAt(tbl, i) = c
IndexIn(c, tbl) == CHOOSE i \in 1..Len(tbl) : CharAt(tbl, i) = c
SetMin(S) == CHOOSE x \in S : \A y \in S : x <= y
SetMax(S) == CHOOSE x \in S : \A y \in S : x >= y

startswith_at(s, p, i) == i + Len(p) - 1 <= Len(s) /\ SubSeq(s, i, i + Len(p) - 1) = p
startswith(s, p) == startswith_at(s, p, 1)
endswith(s, p) == Len(p) <= Len(s) /\ SubSeq(s, Len(s) - Len(p) + 1, Len(s)) = p
\* sub in s
Contains(s, sub) == \E i \in 1..(Len(s) + 1) : startswith_at(s, sub, i)

\* s.strip(chars)
strip_chars(s, chars) ==
    LET keep == {i \in 1..Len(s) : CharAt(s, i) \notin chars}
    IN IF keep = {} THEN "" ELSE SubSeq(s, SetMin(keep), SetMax(keep))
strip(s) == strip_chars(s, Whitespace)

lower_char(c) == IF InStr(c, UpperCase) THEN CharAt(LowerCase, IndexIn(c, UpperCase)) ELSE c
RECURSIVE lower(_)
lower(s) == IF s = "" THEN "" ELSE lower_char(Head(s)) \o lower(Tail(s))

RECURSIVE splitlines(_)
splitlines(s) ==
    IF s = "" THEN <<>>
    ELSE LET nl == {i \in 1..Len(s) : CharAt(s, i) = "\n"}
         IN IF nl = {} THEN <<s>>
            ELSE <<SubSeq(s, 1, SetMin(nl) - 1)>>
                     \o splitlines(SubSeq(s, SetMin(nl) + 1, Len(s)))

\* sep.join(parts)
RECURSIVE join(_, _)
join(sep, parts) ==
    IF parts = <<>> THEN ""
    ELSE IF Len(parts) = 1 THEN parts[1]
    ELSE parts[1] \o sep \o join(sep, Tail(parts))

\* a < b for str: lexicographic by code point
RECURSIVE str_less(_, _)
str_less(a, b) ==
    IF b = "" THEN FALSE
    ELSE IF a = "" THEN TRUE
    ELSE IF Head(a) = Head(b) THEN str_less(Tail(a), Tail(b))
    ELSE IndexIn(Head(a), CodePoints) < IndexIn(Head(b), CodePoints)

\* sorted(S) for a set of str
RECURSIVE sorted(_)
sorted(S) ==
    IF S = {} THEN <<>>
    ELSE LET m == CHOOSE x \in S : \A y \in S \ {x} : str_less(x, y)
         IN <<m>> \o sorted(S \ {m})

\* number of leading characters of s that lie in chars
LeadingRun(s, chars) ==
    LET stop == {i \in 1..Len(s) : CharAt(s, i) \notin chars}
    IN IF stop = {} THEN Len(s) ELSE SetMin(stop) - 1

\* re.sub(r"\s+", " ", s)
RECURSIVE collapse_ws(_)
collapse_ws(s) ==
    IF s = "" THEN ""
    ELSE IF Head(s) \in Whitespace
         THEN " " \o collapse_ws(SubSeq(s, LeadingRun(s, Whitespace) + 1, Len(s)))
         ELSE Head(s) \o collapse_ws(Tail(s))


-----------------------------------------------------------------------------
(* Constants of the program *)

\* None, for a variable that otherwise holds a lower-cased heading
None == "<None>"
TARGET_LANGUAGES == {"english", "translingual"}
POS_KEYS ==
    {"noun", "proper noun", "verb", "adjective", "adverb", "pronoun",
     "determiner", "article", "preposition", "conjunction", "interjection",
     "particle", "numeral", "symbol", "letter", "prefix", "suffix", "infix",
     "circumfix", "abbreviation", "acronym", "initialism", "phrase", "proverb",
     "idiom"}
POS_MAP == [k \in POS_KEYS |-> k]
\* the alternatives of FORM_OF_RE's first group, in the order the regex tries them
FORM_OF_RE ==
    <<"plural", "present participle", "gerund", "inflection", "infl",
      "past tense", "past participle", "simple past",
      "simple past and past participle", "third-person singular",
      "third person singular">>
\* the alternatives of ALT_VARIANT_RE's two groups
ALT_VARIANT_RE ==
    <<"alternate spelling", "alternate form", "alternative spelling",
      "alternative form">>

-----------------------------------------------------------------------------
(* Headings and gloss lines *)

RECURSIVE equals_run(_)
equals_run(n) == IF n = 0 THEN "" ELSE "=" \o equals_run(n - 1)

\* HEADING_RE = ^(=+)\s*(.+?)\s*\1\s*$ : the matches <<n, a, k>> of a line, where
\* group 1 is n '=' characters, the first \s* takes a characters and group 2 the
\* next k; the rest of the line must be \s* then group 1 again then \s*.
HeadingMatches(line) ==
    UNION {LET rest == SubSeq(line, n + 1, Len(line))
           IN {<<n, a, k>> : <<a, k>> \in
                  {ak \in (0..LeadingRun(rest, Whitespace)) \X (1..Len(rest)) :
                      /\ ak[1] + ak[2] <= Len(rest)
                      /\ strip(SubSeq(rest, ak[1] + ak[2] + 1, Len(rest)))
                             = equals_run(n)}}
           : n \in 1..LeadingRun(line, {"="})}

\* the regex engine's match is the first in its search order: group 1 greedy,
\* \s* greedy, group 2 lazy
first_heading_match(line, ms) ==
    LET n == SetMax({m[1] : m \in ms})
        a == SetMax({m[2] : m \in {x \in ms : x[1] = n}})
        k == SetMin({m[3] : m \in {x \in ms : x[1] = n /\ x[2] = a}})
    IN IF ms = {} THEN [matched |-> FALSE, level |-> 0, heading |-> ""]
       ELSE [matched |-> TRUE, level |-> n,
             heading |-> strip(SubSeq(line, n + a + 1, n + a + k))]

\* _heading_level(line): (level, heading), or (None, None) as level 0
heading_level(line) == first_heading_match(line, HeadingMatches(line))

normalize_heading(heading) == lower(collapse_ws(strip(heading)))

\* DEF_LINE_RE = ^(#+)\s*(.*) : group 2, or no match
def_line(line) ==
    LET h == LeadingRun(line, {"#"})
        rest == SubSeq(line, h + 1, Len(line))
    IN IF h = 0 THEN [matched |-> FALSE, content |-> ""]
       ELSE [matched |-> TRUE,
             content |-> SubSeq(rest, LeadingRun(rest, Whitespace) + 1, Len(rest))]

HAS_ALNUM(s) ==
    \E i \in 1..Len(s) : InStr(CharAt(s, i), UpperCase \o LowerCase \o Digits)

-----------------------------------------------------------------------------
(* Templates: the bracket scanner *)

\* what _extract_template returns: (None, None) is found = FALSE; otherwise
\* end is the position just past the closing braces
Unterminated == [found |-> FALSE, end |-> 0, content |-> ""]
Running == [returned |-> FALSE, value |-> Unterminated]
Returned(v) == [returned |-> TRUE, value |-> v]

\* the iteration without the nesting count: any closer ends the template
scan_iteration_flat(text, start, i, depth) ==
    IF startswith_at(text, "{{", i)
    THEN [idx |-> i + 2, depth |-> 1, result |-> Running]
    ELSE IF startswith_at(text, "}}", i) /\ depth # 0
    THEN [idx |-> i + 2, depth |-> 0,
          result |-> Returned([found |-> TRUE, end |-> i + 2,
                               content |-> SubSeq(text, start + 2, i - 1)])]
    ELSE [idx |-> i + 1, depth |-> depth, result |-> Running]

\* one iteration of the while loop of _extract_template, at position i
\* with i <= Len(text)
scan_iteration(text, start, i, depth) ==
    IF startswith_at(text, "{{", i)
    THEN [idx |-> i + 2, depth |-> depth + 1, result |-> Running]
    ELSE IF startswith_at(text, "}}", i) /\ depth # 0
    THEN [idx |-> i + 2, depth |-> depth - 1,
          result |-> IF depth - 1 = 0
                     THEN Returned([found |-> TRUE, end |-> i + 2,
                                    content |-> SubSeq(text, start + 2, i - 1)])
                     ELSE Running]
    ELSE [idx |-> i + 1, depth |-> depth, result |-> Running]

RECURSIVE extract_template_from(_, _, _, _)
extract_template_from(text, start, i, depth) ==
    IF i > Len(text) THEN Unterminated
    ELSE LET n == scan_iteration(text, start, i, depth)
         IN IF n.result.returned THEN n.result.value
            ELSE extract_template_from(text, start, n.idx, n.depth)

\* _extract_template(text, start)
extract_template(text, start) == extract_template_from(text, start, start, 0)

-----------------------------------------------------------------------------
(* Templates: splitting a template body at its top-level bars *)

\* the scan that separates at every bar outside templates, links or not
RECURSIVE split_outside_templates(_, _, _, _, _, _)
split_outside_templates(content, i, depth, link_depth, current, parts) ==
    IF i > Len(content) THEN Append(parts, strip(current))
    ELSE IF startswith_at(content, "{{", i)
    THEN split_outside_templates(content, i + 2, depth + 1, link_depth,
                                 current \o "{{", parts)
    ELSE IF startswith_at(content, "}}", i) /\ depth # 0
    THEN split_outside_templates(content, i + 2, depth - 1, link_depth,
                                 current \o "}}", parts)
    ELSE IF CharAt(content, i) = "|" /\ depth = 0
    THEN split_outside_templates(content, i + 1, depth, link_depth, "",
                                 Append(parts, strip(current)))
    ELSE split_outside_templates(content, i + 1, depth, link_depth,
                                 current \o CharAt(content, i), parts)

\* the while loop of _split_template_parts from position i, and the append
\* after it
RECURSIVE split_from(_, _, _, _, _, _)
split_from(content, i, depth, link_depth, current, parts) ==
    IF i > Len(content) THEN Append(parts, strip(current))
    ELSE IF startswith_at(content, "{{", i)
    THEN split_from(content, i + 2, depth + 1, link_depth, current \o "{{", parts)
    ELSE IF startswith_at(content, "}}", i) /\ depth # 0
    THEN split_from(content, i + 2, depth - 1, link_depth, current \o "}}", parts)
    ELSE IF startswith_at(content, "[[", i)
    THEN split_from(content, i + 2, depth, link_depth + 1, current \o "[[", parts)
    ELSE IF startswith_at(content, "]]", i) /\ link_depth # 0
    THEN split_from(content, i + 2, depth, link_depth - 1, current \o "]]", parts)
    ELSE IF CharAt(content, i) = "|" /\ depth = 0 /\ link_depth = 0
    THEN split_from(content, i + 1, depth, link_depth, "",
                    Append(parts, strip(current)))
    ELSE split_from(content, i + 1, depth, link_depth,
                    current \o CharAt(content, i), parts)

NonEmpty(part) == part # ""

\* _split_template_parts(content)
split_template_parts(content) ==
    SelectSeq(split_from(content, 1, 0, 0, "", <<>>), NonEmpty)

-----------------------------------------------------------------------------
(* Templates: parsing, rendering and expansion *)

\* The interpreter ends a call chain that grows past its ceiling with
\* RecursionError.  recursion_limit is the number of frames the ceiling leaves
\* to the call under study; CPython's ceiling is 1000 frames and the program
\* never changes it, the model keeps the mechanism with a small number.  A
\* function running in frame f that calls a method of a built-in type or a
\* comprehension needs frame f + 1 for it.
recursion_limit == 9
Fits(f) == f <= recursion_limit

\* a call either returns a value or raises RecursionError
Raised == [raised |-> TRUE, value |-> ""]
Ok(v) == [raised |-> FALSE, value |-> v]

LINK_TEMPLATES == {"l", "link", "m", "mention", "w", "wp", "wikipedia"}
WIKI_PREFIXES == {"w", "wikipedia", "wiktionary", "s", "quote", "commons"}
LANGUAGE_CODES == {"en", "eng", "english"}

\* text.split(sep, 1) for a text that holds sep
SplitOnce(text, sep) ==
    LET at == SetMin({i \in 1..Len(text) : CharAt(text, i) = sep})
    IN <<SubSeq(text, 1, at - 1), SubSeq(text, at + 1, Len(text))>>

\* _strip_wiki_prefix(text)
strip_wiki_prefix(text) ==
    IF ~Contains(text, ":") THEN text
    ELSE LET halves == SplitOnce(text, ":")
         IN IF lower(halves[1]) \in WIKI_PREFIXES THEN halves[2] ELSE text

upper_char(c) == IF InStr(c, LowerCase) THEN CharAt(UpperCase, IndexIn(c, LowerCase)) ELSE c
\* s.title(): a letter that follows a letter is lower-cased, any other letter
\* is upper-cased
RECURSIVE title_from(_, _)
title_from(s, after_letter) ==
    IF s = "" THEN ""
    ELSE (IF after_letter THEN lower_char(Head(s)) ELSE upper_char(Head(s)))
             \o title_from(Tail(s), InStr(Head(s), LowerCase \o UpperCase))
str_title(s) == title_from(s, FALSE)


\* DEFINITION_TEMPLATES, each format string given by the text before its
\* "{term}", which ends every one of them
DEFINITION_TEMPLATES ==
    "abbreviation of" :> "Abbreviation of " @@
    "abbr of" :> "Abbreviation of " @@
    "acronym of" :> "Acronym of " @@
    "alternative form of" :> "Alternative form of " @@
    "alt form" :> "Alternative form of " @@
    "alt form of" :> "Alternative form of " @@
    "alternative spelling of" :> "Alternative spelling of " @@
    "alt spelling of" :> "Alternative spelling of " @@
    "alt sp" :> "Alternative spelling of " @@
    "alt sp of" :> "Alternative spelling of " @@
    "altsp" :> "Alternative spelling of " @@
    "alt spell" :> "Alternative spelling of " @@
    "alt spell of" :> "Alternative spelling of " @@
    "alternative case form of" :> "Alternative case form of " @@
    "alternative letter-case of" :> "Alternative letter-case of " @@
    "alternative capitalization of" :> "Alternative capitalization of " @@
    "alt case" :> "Alternative case form of " @@
    "altform" :> "Alternative form of " @@
    "contraction of" :> "Contraction of " @@
    "clipping of" :> "Clipping of " @@
    "comparative of" :> "Comparative of " @@
    "superlative of" :> "Superlative of " @@
    "initialism of" :> "Initialism of " @@
    "init of" :> "Initialism of " @@
    "misspelling of" :> "Misspelling of " @@
    "plural of" :> "Plural of " @@
    "plural form of" :> "Plural of " @@
    "past tense of" :> "Past tense of " @@
    "past participle of" :> "Past participle of " @@
    "present participle of" :> "Present participle of " @@
    "simple past of" :> "Simple past of " @@
    "obs form" :> "Obsolete form of " @@
    "obs sp" :> "Obsolete spelling of " @@
    "obs sp of" :> "Obsolete spelling of " @@
    "stand sp" :> "Standard spelling of " @@
    "standard sp" :> "Standard spelling of " @@
    "pron sp" :> "Pronunciation spelling of " @@
    "ellipsis of" :> "Ellipsis of " @@
    "only used in" :> "Only used in " @@
    "cap" :> "Capitalized form of " @@
    "third-person singular of" :> "Third-person singular of " @@
    "third person singular of" :> "Third-person singular of " @@
    "simple past and past participle of" :> "Simple past and past participle of " @@
    "short for" :> "Short for " @@
    "form of" :> "Form of " @@
    "inflection of" :> "Inflection of " @@
    "infl of" :> "Inflection of "

\* extras = [param for param in params[1:] if param]; "; ".join(extras)
definition_extras(params) ==
    LET extras == SelectSeq(Tail(params), LAMBDA param : param # "")
    IN IF extras # <<>> THEN " (" \o join("; ", extras) \o ")" ELSE ""

\* the definitional branch without its extras
render_first_only(name, params, named) ==
    IF name = "" THEN ""
    ELSE IF name \in LINK_TEMPLATES
    THEN (IF params # <<>> THEN params[1] ELSE "")
    ELSE IF name \in DOMAIN DEFINITION_TEMPLATES
    THEN (IF params # <<>> THEN DEFINITION_TEMPLATES[name] \o params[1] ELSE "")
    ELSE IF endswith(name, " of") /\ params # <<>>
    THEN str_title(name) \o " " \o params[1]
    ELSE ""

\* the families of _render_template, once the template is parsed.  The
\* template names of this model's texts are the letters l and z, names of
\* DEFINITION_TEMPLATES, names that end in " of" and markup, so of the name
\* families only LINK_TEMPLATES and DEFINITION_TEMPLATES can hold one of them;
\* the branches of the other families are left out.
render_family(name, params, named) ==
    IF name = "" THEN ""
    ELSE IF name \in LINK_TEMPLATES
    THEN (IF params # <<>> THEN params[1] ELSE "")
    ELSE IF name \in DOMAIN DEFINITION_TEMPLATES
    THEN (IF params # <<>>
          THEN DEFINITION_TEMPLATES[name] \o params[1] \o definition_extras(params)
          ELSE "")
    ELSE IF endswith(name, " of") /\ params # <<>>
    THEN str_title(name) \o " " \o params[1]
    ELSE ""

\* _expand_templates, _render_template and _parse_template call one another
RECURSIVE expand_from(_, _, _, _)
RECURSIVE parse_params(_, _, _, _, _)
RECURSIVE parse_template(_, _)
RECURSIVE render_template(_, _)

\* _expand_templates(text), called in frame f
expand_call(text, f) ==
    IF ~Fits(f + 1) THEN Raised ELSE expand_from(text, 1, "", f)

\* the loop of _parse_template over parts[1:], from parameter k
parse_params(parts, k, positional, named, f) ==
    IF k > Len(parts) THEN Ok([positional |-> positional, named |-> named])
    ELSE IF Contains(parts[k], "=")
    THEN LET halves == SplitOnce(parts[k], "=")
             key == lower(strip(halves[1]))
             value == expand_call(halves[2], f + 1)
         IN IF value.raised THEN Raised
            ELSE IF strip(value.value) # ""
            THEN parse_params(parts, k + 1, positional,
                              (key :> strip(value.value)) @@ named, f)
            ELSE parse_params(parts, k + 1, positional, named, f)
    ELSE LET value == expand_call(parts[k], f + 1)
         IN IF value.raised THEN Raised
            ELSE IF strip(value.value) # ""
            THEN parse_params(parts, k + 1, Append(positional, strip(value.value)),
                              named, f)
            ELSE parse_params(parts, k + 1, positional, named, f)

\* _parse_template(content), called in frame f
parse_template(content, f) ==
    IF ~Fits(f + 2) THEN Raised       \* _split_template_parts and its comprehension
    ELSE LET parts == split_template_parts(content)
         IN IF parts = <<>> THEN Ok([name |-> "", positional |-> <<>>, named |-> <<>>])
            ELSE LET p == parse_params(parts, 2, <<>>, <<>>, f)
                 IN IF p.raised THEN Raised
                    ELSE LET positional == SelectSeq(p.value.positional,
                                                   LAMBDA v : lower(v) \notin LANGUAGE_CODES)
                             colon == \/ \E k \in 1..Len(positional) :
                                            Contains(positional[k], ":")
                                      \/ \E k \in DOMAIN p.value.named :
                                            Contains(p.value.named[k], ":")
                         IN IF colon /\ ~Fits(f + 3) THEN Raised
                            ELSE Ok([name |-> lower(strip(parts[1])),
                                     positional |-> [k \in 1..Len(positional) |->
                                                        strip_wiki_prefix(positional[k])],
                                     named |-> [k \in DOMAIN p.value.named |->
                                                   strip_wiki_prefix(p.value.named[k])]])

\* _render_template(content), called in frame f
render_template(content, f) ==
    LET p == parse_template(content, f + 1)
    IN IF p.raised THEN Raised
       ELSE Ok(render_family(p.value.name, p.value.positional, p.value.named))

\* the loop of _expand_templates from position i, and the join after it
expand_from(text, i, result, f) ==
    IF i > Len(text) THEN Ok(result)
    ELSE IF startswith_at(text, "{{", i)
    THEN IF ~Fits(f + 2) THEN Raised  \* _extract_template and its startswith
         ELSE LET t == extract_template(text, i)
              IN IF ~t.found
                 THEN expand_from(text, i + 1, result \o CharAt(text, i), f)
                 ELSE LET replacement == render_template(t.content, f + 1)
                      IN IF replacement.raised THEN Raised
                         ELSE expand_from(text, t.end, result \o replacement.value, f)
    ELSE expand_from(text, i + 1, result \o CharAt(text, i), f)

-----------------------------------------------------------------------------
(* The cleaner *)

RECURSIVE strip_templates_from(_, _, _)
strip_templates_from(text, i, depth) ==
    IF i > Len(text) THEN ""
    ELSE IF startswith_at(text, "{{", i) THEN strip_templates_from(text, i + 2, depth + 1)
    ELSE IF depth > 0 /\ startswith_at(text, "}}", i)
         THEN strip_templates_from(text, i + 2, depth - 1)
    ELSE (IF depth = 0 THEN CharAt(text, i) ELSE "")
             \o strip_templates_from(text, i + 1, depth)
strip_templates(text) == strip_templates_from(text, 1, 0)

\* re.sub(r"\s+([.,;:!?])", r"\1", s)
RECURSIVE fix_punctuation(_)
fix_punctuation(s) ==
    IF s = "" THEN ""
    ELSE IF Head(s) \in Whitespace
         THEN LET n == LeadingRun(s, Whitespace)
              IN IF n < Len(s) /\ CharAt(s, n + 1) \in {".", ",", ";", ":", "!", "?"}
                 THEN fix_punctuation(SubSeq(s, n + 1, Len(s)))
                 ELSE SubSeq(s, 1, n) \o fix_punctuation(SubSeq(s, n + 1, Len(s)))
         ELSE Head(s) \o fix_punctuation(Tail(s))

\* _clean_wikitext(text), called in frame f.  The texts of this model are
\* written without the characters < [ ' & , so the comment, link, quote-mark,
\* tag and entity stages leave them as they are; the remaining stages are
\* template expansion, template stripping, whitespace and punctuation.  The
\* few frames the re and html modules need are not counted.
clean_expanded(expanded) ==
    IF expanded.raised THEN Raised
    ELSE Ok(fix_punctuation(strip(collapse_ws(strip_templates(expanded.value)))))
clean_call(text, f) == clean_expanded(expand_call(text, f + 1))

\* the cleaned text of a gloss whose cleaning returns, as the pages of the
\* dump of this model all do (they hold no template)
clean_wikitext(text) == clean_call(text, 1).value

-----------------------------------------------------------------------------
(* The section walker: extract_definitions, one line at a time *)

SeqContains(seq, x) == \E i \in 1..Len(seq) : seq[i] = x

\* the append without its membership test
append_always(defs, entry) == Append(defs, entry)

\* the entry list after "if entry not in definitions: definitions.append(entry)"
append_unique(defs, entry) == IF SeqContains(defs, entry) THEN defs ELSE Append(defs, entry)

\* One iteration of the loop over text.splitlines(), in the order of its tests.
\* st.emitted records every entry that reaches the append, duplicates included.
walk_cleaned(st, cleaned) ==
    IF cleaned = "" \/ ~HAS_ALNUM(cleaned) THEN st
    ELSE [st EXCEPT
            !.definitions =
                append_unique(@, <<st.language,
                                   IF st.pos = None THEN "unknown" ELSE st.pos,
                                   cleaned>>),
            !.emitted =
                Append(@, <<st.language,
                            IF st.pos = None THEN "unknown" ELSE st.pos,
                            cleaned>>)]

\* the content test without the '*' and ':' exclusions
walk_any_content(st, content) ==
    IF content = "" THEN st ELSE walk_cleaned(st, clean_wikitext(content))

walk_content(st, content) ==
    IF content = "" \/ startswith(content, "*") \/ startswith(content, ":") THEN st
    ELSE walk_cleaned(st, clean_wikitext(content))

walk_def_line(st, d) ==
    IF ~d.matched THEN st ELSE walk_content(st, strip(d.content))

\* the sub-heading taken as the part of speech whatever it says
walk_any_subheading(st, heading_key) == [st EXCEPT !.pos = heading_key]

walk_subheading(st, heading_key) ==
    IF heading_key \in DOMAIN POS_MAP THEN [st EXCEPT !.pos = POS_MAP[heading_key]] ELSE st

\* the heading tests without the reset of the part of speech at level 2
walk_heading_keep_pos(st, h, line) ==
    IF h.level = 2
    THEN [st EXCEPT !.language = normalize_heading(h.heading)]
    ELSE IF st.language \notin TARGET_LANGUAGES THEN st
    ELSE IF h.matched /\ h.level >= 3
    THEN walk_subheading(st, normalize_heading(h.heading))
    ELSE walk_def_line(st, def_line(line))

walk_heading(st, h, line) ==
    IF h.level = 2
    THEN [st EXCEPT !.language = normalize_heading(h.heading), !.pos = None]
    ELSE IF st.language \notin TARGET_LANGUAGES THEN st
    ELSE IF h.matched /\ h.level >= 3
    THEN walk_subheading(st, normalize_heading(h.heading))
    ELSE walk_def_line(st, def_line(line))

walk_line(st, line) == walk_heading(st, heading_level(line), line)

walker_start ==
    [language |-> None, pos |-> None, definitions |-> <<>>, emitted |-> <<>>]

RECURSIVE walk_lines(_, _)
walk_lines(st, lines) ==
    IF lines = <<>> THEN st ELSE walk_lines(walk_line(st, Head(lines)), Tail(lines))

extract_definitions(text) == walk_lines(walker_start, splitlines(text)).definitions

-----------------------------------------------------------------------------
(* The form resolver *)

\* _strip_leading_labels: while re.match(r"^\([^)]*\)\s*") matches, drop the match
RECURSIVE strip_leading_labels(_)
strip_leading_labels(text) ==
    LET close == {i \in 2..Len(text) : CharAt(text, i) = ")"}
        after == SubSeq(text, SetMin(close) + 1, Len(text))
    IN IF ~startswith(text, "(") \/ close = {} THEN text
       ELSE strip_leading_labels(SubSeq(after, LeadingRun(after, Whitespace) + 1, Len(after)))

\* re.match of "^(a1|a2|...) of (.+?)(?:[.;]|$)" with IGNORECASE, for the
\* alternatives alts in the regex's order: the alternative that matches is the
\* first one followed by " of " and at least one more character; the lazy last
\* group ends before the first '.' or ';' after its first character, or at the
\* end of the text.  (A gloss text holds no line break.)
form_re_term(rest) ==
    SubSeq(rest, 1, SetMin({j \in 1..Len(rest) :
                               j = Len(rest) \/ CharAt(rest, j + 1) \in {".", ";"}}))

form_re_first(alts, text, hits) ==
    IF hits = {} THEN [matched |-> FALSE, kind |-> "", term |-> ""]
    ELSE [matched |-> TRUE, kind |-> alts[SetMin(hits)],
          term |-> form_re_term(SubSeq(text, Len(alts[SetMin(hits)]) + 5, Len(text)))]

form_re_match(alts, text) ==
    form_re_first(alts, text,
                  {i \in 1..Len(alts) :
                      /\ Len(text) > Len(alts[i]) + 4
                      /\ lower(SubSeq(text, 1, Len(alts[i]) + 4)) = alts[i] \o " of "})

\* re.split(r"\s*(?:d1|d2|...)", s, 1)[0] for single-character delimiters
split_first(s, delims) ==
    LET at == {i \in 1..Len(s) : CharAt(s, i) \in delims}
        before == SubSeq(s, 1, SetMin(at) - 1)
        keep == {i \in 1..Len(before) : CharAt(before, i) \notin Whitespace}
    IN IF at = {} THEN s
       ELSE IF keep = {} THEN ""
       ELSE SubSeq(before, 1, SetMax(keep))

NoForm == [found |-> FALSE, form_type |-> "", lemma |-> ""]

\* the form types the "-ed" check of _extract_form_of_base applies to
PAST_GATED == {"past tense", "past participle", "simple past"}

\* "lemma.strip(); re.split(...)[0].strip(); lemma.strip(' .')"
clean_lemma(term, delims) ==
    strip_chars(strip(split_first(strip(term), delims)), {" ", "."})

\* the generic kind read as a present participle whatever the word is
resolve_as_participle(word, kind) ==
    IF kind \in {"inflection", "infl"} THEN "present participle" ELSE kind

\* the generic "inflection of" is told apart by the spelling of the source word
resolve_form_type(word, kind) ==
    IF kind \in {"inflection", "infl"}
    THEN IF endswith(word, "ing") THEN "present participle"
         ELSE IF endswith(word, "ed") THEN "past tense"
         ELSE IF endswith(word, "s") THEN "third-person singular"
         ELSE None
    ELSE kind

\* the suffix checks
gate_form(word, form_type, lemma) ==
    IF lemma = "" THEN NoForm
    ELSE IF form_type = None THEN NoForm
    ELSE IF form_type \in PAST_GATED /\ ~endswith(word, "ed") THEN NoForm
    ELSE IF form_type = "third-person singular" /\ ~endswith(word, "s") THEN NoForm
    ELSE [found |-> TRUE, form_type |-> form_type, lemma |-> lower(lemma)]

form_of_match(word, m) ==
    IF ~m.matched THEN NoForm
    ELSE gate_form(word, resolve_form_type(word, m.kind),
                   clean_lemma(m.term, {"(", ",", ";"}))

\* _extract_form_of_base(word, text): None (NoForm) or (form_type, lemma)
extract_form_of_base(word, text) ==
    form_of_match(word, form_re_match(FORM_OF_RE, strip_leading_labels(text)))

alt_variant_match(m) ==
    IF ~m.matched THEN "" ELSE lower(clean_lemma(m.term, {"(", ",", ";", ":"}))

\* _extract_alt_variant_base(text): the base, or "" for None (the code tests
\* the result for truth, and never returns an empty base)
extract_alt_variant_base(text) ==
    alt_variant_match(form_re_match(ALT_VARIANT_RE, strip_leading_labels(text)))

-----------------------------------------------------------------------------
(* Output rendering *)


\* _extract_transitivity(text): the flags joined by ", ", or "" for None
extract_transitivity(text) ==
    LET close == {i \in 2..Len(text) : CharAt(text, i) = ")"}
        label == lower(SubSeq(text, 2, SetMin(close) - 1))
        flags == SelectSeq(<<"transitive", "intransitive", "ditransitive">>,
                           LAMBDA flag : Contains(label, flag))
    IN IF ~startswith(text, "(") \/ close = {} THEN "" ELSE join(", ", flags)

\* dict.get(key, default)
Get(map, key, default) == IF key \in DOMAIN map THEN map[key] ELSE default

\* one "<prefix>: <text>" field of write_output
render_field(entry) ==
    LET transitivity == extract_transitivity(entry[3])
        pos_label == IF entry[2] = "verb" /\ transitivity # ""
                     THEN "verb (" \o transitivity \o ")"
                     ELSE entry[2]
        prefix == IF entry[1] # "english" THEN entry[1] \o " " \o pos_label ELSE pos_label
    IN prefix \o ": " \o entry[3]

\* the line write_output builds for one word
render_line(word, defs_map, alt_map) ==
    LET defs == Get(defs_map, word, <<>>)
        fields == <<word>> \o [i \in 1..Len(defs) |-> render_field(defs[i])]
        alt_spellings == sorted(Get(alt_map, word, {}))
        suffix == "(alternate spellings: " \o join(", ", alt_spellings) \o ")"
    IN join(" | ",
            IF alt_spellings = <<>> THEN fields
            ELSE IF Len(fields) > 1
                 THEN [fields EXCEPT ![Len(fields)] = @ \o " " \o suffix]
                 ELSE Append(fields, suffix))

\* write_output: the text of the output file
write_output(out_words, defs_map, alt_map) ==
    join("\n", [i \in 1..Len(out_words) |-> render_line(out_words[i], defs_map, alt_map)])
        \o "\n"

-----------------------------------------------------------------------------
(* The runs checked: every word list and every dump within the bounds,      *)
(* with the pages of the dump taken from PagePool                           *)

MaxWords == 2       \* longest input word list
MaxPages == 3       \* longest dump

InputWords == {"cats", "cat", "Cat", "kat"}

Page(title, text) ==
    [has_title |-> TRUE, title |-> title, has_text |-> TRUE, text |-> text]
NounSection == "==English==\n===Noun===\n"
\* The pages a dump is made of: "cats" is the plural of "cat"; "cat" is either
\* a lemma with a gloss of its own or itself the plural of "kat"; "Cats" (a
\* second page with the key "cats") has two more lemmas and a gloss of its
\* own; "kat" is an alternative spelling of "cat" with a gloss of its own; "Kat" (a
\* second page with the key "kat") has no other gloss than that it is an
\* alternate form of "cat"; one page record has no title element and one has
\* no text element.
PagePool ==
    {Page("cats", NounSection \o "# Plural of cat."),
     Page("cat", NounSection \o "# A small domesticated feline."),
     Page("cat", NounSection \o "# Plural of kat."),
     Page("Cats", NounSection \o "# Plural of zebra.\n# Plural of anteater.\n# A musical."),
     Page("kat", NounSection \o "# Alternative spelling of cat.\n# A  shrub ."),
     Page("Kat", NounSection \o "# Alternate form of cat."),
     [has_title |-> FALSE, title |-> "", has_text |-> TRUE,
      text |-> NounSection \o "# A page without a title."],
     [has_title |-> TRUE, title |-> "cat", has_text |-> FALSE, text |-> ""]}

\* The pages of the dumps in which several pages of one key share glosses:
\* three pages with the key "kat", of which two say "A shrub." and two say
\* "A tree." and one says that kat is the plural of "ka"; the page of "ka"; a
\* page record without a title element and one without a text element.
MergePool ==
    {Page("kat", NounSection \o "# A shrub."),
     Page("KAT", NounSection \o "# A shrub.\n# A tree."),
     Page("Kat", NounSection \o "# A tree.\n# Plural of ka."),
     Page("ka", NounSection \o "# A spirit."),
     [has_title |-> FALSE, title |-> "", has_text |-> TRUE,
      text |-> NounSection \o "# A page without a title."],
     [has_title |-> TRUE, title |-> "kat", has_text |-> FALSE, text |-> ""]}
MergeWords == {"kat", "ka"}

AllPages == PagePool \cup MergePool

\* the function f as a table: its values are computed once, when the table is
\* built, and not at each application
Table(f) == f @@ <<>>

\* extract_definitions(page.text) for the pages of the pool, computed once
definitions_for_page == Table([p \in AllPages |-> extract_definitions(p.text)])

\* title.strip().lower() for the titles of the pool, computed once
key_of_title == Table([t \in {p.title : p \in AllPages} |-> lower(strip(t))])

\* the keys and the entries the pages of the pool give
PoolKeys == {key_of_title[p.title] : p \in AllPages}
PoolEntries ==
    UNION {{definitions_for_page[p][i] : i \in 1..Len(definitions_for_page[p])} :
              p \in AllPages}

\* _extract_alt_variant_base(definition_text) and _extract_form_of_base(key,
\* definition) for the entries and keys of the pool, computed once
alt_variant_base == Table([d \in PoolEntries |-> extract_alt_variant_base(d[3])])
form_of_base ==
    Table([kd \in PoolKeys \X PoolEntries |-> extract_form_of_base(kd[1], kd[2][3])])

-----------------------------------------------------------------------------
(* The extraction pipeline: parse_definitions, one page record per step *)

Range(seq) == {seq[i] : i \in 1..Len(seq)}
EmptyMap == <<>>

\* map.setdefault(key, set()).add(value)
SetAdd(map, key, value) ==
    IF key \in DOMAIN map THEN [map EXCEPT ![key] = @ \cup {value}]
    ELSE map @@ (key :> {value})

\* "title_elem is None or not title_elem.text"
untitled(page) == ~page.has_title \/ page.title = ""
\* key = title_elem.text.strip().lower()
page_key(page) == key_of_title[page.title]

\* extra_targets passed to both scans
collecting_in_both_scans == pc \in {"pass1", "pass2"}

\* extra_targets is passed (not None) in the first scan only
collecting == pc = "pass1"

\* the iteration that keeps an alternative-spelling gloss as an entry as well
keep_alt_variant(acc, key, definition, alt_base) ==
    IF alt_base # ""
    THEN [acc EXCEPT
            !.filtered = Append(@, definition),
            !.avm = SetAdd(@, key, alt_base),
            !.asb = SetAdd(@, alt_base, key),
            !.extra = IF collecting /\ alt_base \notin acc.targets
                      THEN @ \cup {alt_base} ELSE @,
            !.targets = IF collecting /\ alt_base \notin acc.targets
                        THEN @ \cup {alt_base} ELSE @]
    ELSE [acc EXCEPT !.filtered = Append(@, definition)]

\* One iteration of the loop over definitions_for_page, which sets the
\* alternative-spelling glosses aside.  acc = [filtered, avm, asb, extra, targets].
filter_alt_variant(acc, key, definition, alt_base) ==
    IF alt_base # ""
    THEN [acc EXCEPT
            !.avm = SetAdd(@, key, alt_base),
            !.asb = SetAdd(@, alt_base, key),
            !.extra = IF collecting /\ alt_base \notin acc.targets
                      THEN @ \cup {alt_base} ELSE @,
            !.targets = IF collecting /\ alt_base \notin acc.targets
                        THEN @ \cup {alt_base} ELSE @]
    ELSE [acc EXCEPT !.filtered = Append(@, definition)]

RECURSIVE filter_alt_variants(_, _, _)
filter_alt_variants(acc, key, defs) ==
    IF defs = <<>> THEN acc
    ELSE filter_alt_variants(
             filter_alt_variant(acc, key, Head(defs),
                                alt_variant_base[Head(defs)]),
             key, Tail(defs))

\* "for definition in filtered_definitions: if definition not in existing: ..."
RECURSIVE extend_unique(_, _)
extend_unique(existing, new) ==
    IF new = <<>> THEN existing
    ELSE extend_unique(append_unique(existing, Head(new)), Tail(new))

\* the entries of the page in place of the entries the key already has
replace_definitions(defs_map, key, filtered) ==
    IF key \in DOMAIN defs_map THEN [defs_map EXCEPT ![key] = filtered]
    ELSE defs_map @@ (key :> filtered)

\* definitions after the page's retained entries are merged in
merge_definitions(defs_map, key, filtered) ==
    IF Get(defs_map, key, <<>>) # <<>>
    THEN [defs_map EXCEPT ![key] = extend_unique(@, filtered)]
    ELSE [k \in DOMAIN defs_map \cup {key} |-> IF k = key THEN filtered ELSE defs_map[k]]

\* One iteration of the loop over filtered_definitions, which records the form
\* relations and grows the frontier.  acc = [fom, extra, targets].
record_form(acc, key, form_of) ==
    IF ~form_of.found THEN acc
    ELSE [acc EXCEPT
            !.fom = SetAdd(@, key, form_of.lemma),
            !.extra = IF form_of.lemma \notin acc.targets
                      THEN @ \cup {form_of.lemma} ELSE @,
            !.targets = IF form_of.lemma \notin acc.targets
                        THEN @ \cup {form_of.lemma} ELSE @]

RECURSIVE record_forms(_, _, _)
record_forms(acc, key, defs) ==
    IF defs = <<>> THEN acc
    ELSE record_forms(record_form(acc, key, form_of_base[<<key, Head(defs)>>]),
                      key, Tail(defs))

\* a scan in which no page element is ever cleared
clear_nothing(elems, page) == elems

\* elem.clear(); root.clear(): the element of the page is emptied and the
\* root lets go of it
clear(elems, page) == elems \ {page}

Scanning == pc \in {"pass1", "pass2"} /\ idx < Len(dump)

\* a page record without a title (or with an empty one) is released and skipped
SkipUntitled ==
    /\ Scanning
    /\ untitled(dump[idx + 1])
    /\ idx' = idx + 1
    /\ held' = clear(held \cup {idx + 1}, idx + 1)
    /\ UNCHANGED <<words, dump, pc, passes, targets, seen, extra_seen, definitions,
                   form_of_map, alt_variant_map, alt_spellings_by_base,
                   extra_targets, output_words, output, missing,
                   walker_vars, form_vars, template_vars>>

\* a page whose key is not a target is released and skipped
SkipNonTarget ==
    /\ Scanning
    /\ ~untitled(dump[idx + 1])
    /\ page_key(dump[idx + 1]) \notin targets
    /\ idx' = idx + 1
    /\ held' = clear(held \cup {idx + 1}, idx + 1)
    /\ UNCHANGED <<words, dump, pc, passes, targets, seen, extra_seen, definitions,
                   form_of_map, alt_variant_map, alt_spellings_by_base,
                   extra_targets, output_words, output, missing,
                   walker_vars, form_vars, template_vars>>

\* the scan's own "seen" set is seen in the first scan, extra_seen in the second
mark_seen(key) ==
    /\ seen' = IF pc = "pass1" THEN seen \cup {key} ELSE seen
    /\ extra_seen' = IF pc = "pass2" THEN extra_seen \cup {key} ELSE extra_seen

\* a target page without a text element: elem.find() gives None and
\* "text_elem.text" raises AttributeError, which nothing catches
RaiseNoText ==
    /\ Scanning
    /\ ~untitled(dump[idx + 1])
    /\ page_key(dump[idx + 1]) \in targets
    /\ ~dump[idx + 1].has_text
    /\ mark_seen(page_key(dump[idx + 1]))
    /\ pc' = "crashed"
    /\ held' = held \cup {idx + 1}
    /\ UNCHANGED <<words, dump, idx, passes, targets, definitions, form_of_map,
                   alt_variant_map, alt_spellings_by_base, extra_targets,
                   output_words, output, missing,
                   walker_vars, form_vars, template_vars>>

\* the page's effect once its form relations f = [fom, extra, targets] are known
StorePage(key, filtered, f) ==
    /\ definitions' = IF filtered # <<>>
                      THEN merge_definitions(definitions, key, filtered)
                      ELSE definitions
    /\ form_of_map' = f.fom
    /\ extra_targets' = f.extra
    /\ targets' = f.targets

\* the page's effect once its glosses are split, a = [filtered, avm, asb, extra, targets]
RecordPage(key, a) ==
    /\ mark_seen(key)
    /\ alt_variant_map' = a.avm
    /\ alt_spellings_by_base' = a.asb
    /\ StorePage(key, a.filtered,
                 IF a.filtered # <<>> /\ collecting
                 THEN record_forms([fom |-> form_of_map, extra |-> a.extra,
                                    targets |-> a.targets], key, a.filtered)
                 ELSE [fom |-> form_of_map, extra |-> a.extra, targets |-> a.targets])

\* a target page with a text element
ProcessPage ==
    /\ Scanning
    /\ ~untitled(dump[idx + 1])
    /\ page_key(dump[idx + 1]) \in targets
    /\ dump[idx + 1].has_text
    /\ RecordPage(page_key(dump[idx + 1]),
                  filter_alt_variants(
                      [filtered |-> <<>>, avm |-> alt_variant_map,
                       asb |-> alt_spellings_by_base, extra |-> extra_targets,
                       targets |-> targets],
                      page_key(dump[idx + 1]),
                      definitions_for_page[dump[idx + 1]]))
    /\ idx' = idx + 1
    /\ held' = clear(held \cup {idx + 1}, idx + 1)
    /\ UNCHANGED <<words, dump, pc, passes, output_words, output, missing,
                   walker_vars, form_vars, template_vars>>

-----------------------------------------------------------------------------
(* main *)

\* the intersection in place of the difference
missing_extra_resolved == extra_targets \cap DOMAIN definitions

\* missing_extra = extra_targets - set(definitions)
missing_extra == extra_targets \ DOMAIN definitions

\* the first scan is over and a second one is started for missing_extra
StartPass2 ==
    /\ pc = "pass1" /\ idx = Len(dump)
    /\ extra_targets # {} /\ missing_extra # {}
    /\ pc' = "pass2"
    /\ idx' = 0
    /\ passes' = passes + 1
    /\ targets' = missing_extra
    /\ UNCHANGED <<words, dump, seen, extra_seen, definitions, form_of_map,
                   alt_variant_map, alt_spellings_by_base, extra_targets,
                   output_words, output, missing, held,
                   walker_vars, form_vars, template_vars>>

\* the first scan is over and nothing is left for a second one
SkipPass2 ==
    /\ pc = "pass1" /\ idx = Len(dump)
    /\ ~(extra_targets # {} /\ missing_extra # {})
    /\ pc' = "output"
    /\ UNCHANGED <<words, dump, idx, passes, targets, seen, extra_seen, definitions,
                   form_of_map, alt_variant_map, alt_spellings_by_base,
                   extra_targets, output_words, output, missing, held,
                   walker_vars, form_vars, template_vars>>

\* the second scan is over: seen |= extra_seen
EndPass2 ==
    /\ pc = "pass2" /\ idx = Len(dump)
    /\ seen' = seen \cup extra_seen
    /\ pc' = "output"
    /\ UNCHANGED <<words, dump, idx, passes, targets, extra_seen, definitions,
                   form_of_map, alt_variant_map, alt_spellings_by_base,
                   extra_targets, output_words, output, missing, held,
                   walker_vars, form_vars, template_vars>>

\* the last lemma of the sorted list in place of the first
chosen_base_last(word) ==
    IF Get(form_of_map, word, {}) # {}
    THEN sorted(form_of_map[word])[Len(sorted(form_of_map[word]))] ELSE ""

\* base = sorted(form_of_map[word])[0] if the word has form relations, else None ("")
chosen_base(word) ==
    IF Get(form_of_map, word, {}) # {} THEN sorted(form_of_map[word])[1] ELSE ""
chosen_alt_base(word) ==
    IF Get(alt_variant_map, word, {}) # {} THEN sorted(alt_variant_map[word])[1] ELSE ""

\* the append without the output_seen test
emit_again(out, w) == Append(out, w)

\* "if w not in output_seen: output_words.append(w); output_seen.add(w)"
\* (output_seen is the set of the members of output_words)
emit(out, w) == IF SeqContains(out, w) THEN out ELSE Append(out, w)

\* the loop body with the inflected word emitted after its lemma when it has
\* definitions, as it is for an alternative spelling
compose_word_both(out, word) ==
    IF chosen_base(word) # ""
    THEN IF Get(definitions, word, <<>>) # <<>>
         THEN emit(emit(out, chosen_base(word)), word)
         ELSE emit(out, chosen_base(word))
    ELSE IF chosen_alt_base(word) # ""
         THEN IF Get(definitions, word, <<>>) # <<>>
              THEN emit(emit(out, chosen_alt_base(word)), word)
              ELSE emit(out, chosen_alt_base(word))
    ELSE emit(out, word)

\* one iteration of the loop that builds output_words
compose_word(out, word) ==
    IF chosen_base(word) # "" THEN emit(out, chosen_base(word))
    ELSE IF chosen_alt_base(word) # ""
         THEN LET with_base == emit(out, chosen_alt_base(word))
              IN IF Get(definitions, word, <<>>) # <<>>
                 THEN emit(with_base, word) ELSE with_base
    ELSE emit(out, word)

RECURSIVE compose_output(_, _)
compose_output(out, ws) ==
    IF ws = <<>> THEN out ELSE compose_output(compose_word(out, Head(ws)), Tail(ws))

\* the output stage: output_words, the output file and the missing count
WriteOutput ==
    /\ pc = "output"
    /\ output_words' = compose_output(<<>>, words)
    /\ output' = write_output(output_words', definitions, alt_spellings_by_base)
    /\ missing' = (Range(words) \cup extra_targets) \ seen
    /\ pc' = "done"
    /\ UNCHANGED <<words, dump, idx, passes, targets, seen, extra_seen, definitions,
                   form_of_map, alt_variant_map, alt_spellings_by_base,
                   extra_targets, held,
                   walker_vars, form_vars, template_vars>>

-----------------------------------------------------------------------------
(* The runs checked, continued *)

WordLists == UNION {[1..n -> InputWords] : n \in 1..MaxWords}
Dumps ==
    {d \in UNION {[1..n -> PagePool] : n \in 0..MaxPages} :
        \A i, j \in 1..Len(d) : i # j => d[i] # d[j]}

WalkerIdle ==
    /\ w_lines = <<>> /\ w_idx = 0
    /\ current_language = None /\ current_pos = None
    /\ w_definitions = <<>> /\ w_emitted = <<>>
FormIdle == f_word = "" /\ f_text = "" /\ f_result = NoForm
ScannerIdle ==
    /\ s_text = "" /\ s_start = 0 /\ s_idx = 0 /\ s_depth = 0 /\ s_steps = 0
    /\ s_result = Running
TemplateIdle == ScannerIdle /\ t_text = "" /\ t_result = ""
PipelineIdle ==
    /\ words = <<>> /\ dump = <<>> /\ pc = "idle" /\ idx = 0 /\ passes = 0
    /\ targets = {} /\ seen = {} /\ extra_seen = {}
    /\ definitions = EmptyMap /\ form_of_map = EmptyMap
    /\ alt_variant_map = EmptyMap /\ alt_spellings_by_base = EmptyMap
    /\ extra_targets = {} /\ output_words = <<>> /\ output = "" /\ missing = {}
    /\ held = {}

\* main up to the first call of parse_definitions
Init ==
    /\ words \in WordLists
    /\ dump \in Dumps
    /\ pc = "pass1" /\ idx = 0 /\ passes = 1
    /\ targets = Range(words)
    /\ seen = {} /\ extra_seen = {}
    /\ definitions = EmptyMap /\ form_of_map = EmptyMap
    /\ alt_variant_map = EmptyMap /\ alt_spellings_by_base = EmptyMap
    /\ extra_targets = {}
    /\ output_words = <<>> /\ output = "" /\ missing = {}
    /\ held = {}
    /\ WalkerIdle /\ FormIdle /\ TemplateIdle

Next ==
    \/ SkipUntitled
    \/ SkipNonTarget
    \/ RaiseNoText
    \/ ProcessPage
    \/ StartPass2
    \/ SkipPass2
    \/ EndPass2
    \/ WriteOutput

Spec == Init /\ [][Next]_vars

\* the same program on the word lists and the dumps of MergeWords and MergePool
InitMerge ==
    /\ words \in UNION {[1..n -> MergeWords] : n \in 1..MaxWords}
    /\ dump \in {d \in UNION {[1..n -> MergePool] : n \in 0..MaxPages} :
                    \A i, j \in 1..Len(d) : i # j => d[i] # d[j]}
    /\ pc = "pass1" /\ idx = 0 /\ passes = 1
    /\ targets = Range(words)
    /\ seen = {} /\ extra_seen = {}
    /\ definitions = EmptyMap /\ form_of_map = EmptyMap
    /\ alt_variant_map = EmptyMap /\ alt_spellings_by_base = EmptyMap
    /\ extra_targets = {}
    /\ output_words = <<>> /\ output = "" /\ missing = {}
    /\ held = {}
    /\ WalkerIdle /\ FormIdle /\ TemplateIdle

SpecMerge == InitMerge /\ [][Next]_vars

-----------------------------------------------------------------------------
(* The section walker on its own: extract_definitions over every page text  *)
(* of at most MaxLines lines                                                *)

MaxLines == 4       \* longest page text, in lines

WalkLinePool ==
    {"==English==", "==French==", "===Noun===", "===Usage notes===",
     "# A cat.", "#  A  cat .", "# A dog.", "#: as in a note"}

WalkTexts == UNION {[1..n -> WalkLinePool] : n \in 0..MaxLines}

InitWalk ==
    /\ w_lines \in {splitlines(join("\n", t)) : t \in WalkTexts}
    /\ w_idx = 0
    /\ current_language = None /\ current_pos = None
    /\ w_definitions = <<>> /\ w_emitted = <<>>
    /\ PipelineIdle /\ FormIdle /\ TemplateIdle

StoreWalker(st) ==
    /\ current_language' = st.language
    /\ current_pos' = st.pos
    /\ w_definitions' = st.definitions
    /\ w_emitted' = st.emitted

\* one iteration of the loop of extract_definitions
WalkLine ==
    /\ pc = "idle"
    /\ w_idx < Len(w_lines)
    /\ StoreWalker(walk_line([language |-> current_language, pos |-> current_pos,
                              definitions |-> w_definitions, emitted |-> w_emitted],
                             w_lines[w_idx + 1]))
    /\ w_idx' = w_idx + 1
    /\ UNCHANGED <<w_lines, pipeline_vars, form_vars, template_vars>>

NextWalk == WalkLine

SpecWalk == InitWalk /\ [][NextWalk]_vars

\* the walker over page texts with headings of every kind: language headings
\* of a target and of another language, sub-headings of two levels inside and
\* outside the part-of-speech vocabulary, and '#' lines that are a gloss, a
\* note, a quotation and a line without a letter or digit
SectionLinePool ==
    {"==English==", "== French ==", "===Noun===", "====Verb====",
     "===Usage notes===", "# A cat.", "#: as in a note", "#* a quote", "# ..."}

SectionTexts == UNION {[1..n -> SectionLinePool] : n \in 0..MaxLines}

InitSection ==
    /\ w_lines \in {splitlines(join("\n", t)) : t \in SectionTexts}
    /\ w_idx = 0
    /\ current_language = None /\ current_pos = None
    /\ w_definitions = <<>> /\ w_emitted = <<>>
    /\ PipelineIdle /\ FormIdle /\ TemplateIdle

NextSection == WalkLine

SpecSection == InitSection /\ [][NextSection]_vars

-----------------------------------------------------------------------------
(* The form resolver on its own: _extract_form_of_base on a word and a gloss *)

FormWords == {"ran", "jumped", "runs", "hath", "running", "geese", "walked", "is"}
FormPhrasings ==
    {"Plural", "Present participle", "Gerund", "Inflection", "infl", "Past tense",
     "Past participle", "Simple past", "Simple past and past participle",
     "Third-person singular", "Third person singular", "Synonym"}
FormLabels == {"", "(obsolete) "}
FormTerms == {"run.", "Have (verb); see go", "."}
FormTexts ==
    {l \o p \o " of " \o t : l \in FormLabels, p \in FormPhrasings, t \in FormTerms}

InitForm ==
    /\ f_word \in FormWords
    /\ f_text \in FormTexts
    /\ f_result = NoForm
    /\ words = <<>> /\ dump = <<>> /\ pc = "resolving" /\ idx = 0 /\ passes = 0
    /\ targets = {} /\ seen = {} /\ extra_seen = {}
    /\ definitions = EmptyMap /\ form_of_map = EmptyMap
    /\ alt_variant_map = EmptyMap /\ alt_spellings_by_base = EmptyMap
    /\ extra_targets = {} /\ output_words = <<>> /\ output = "" /\ missing = {}
    /\ held = {}
    /\ WalkerIdle /\ TemplateIdle

\* the call _extract_form_of_base(word, text)
ResolveForm ==
    /\ pc = "resolving"
    /\ f_result' = extract_form_of_base(f_word, f_text)
    /\ pc' = "resolved"
    /\ UNCHANGED <<words, dump, idx, passes, targets, seen, extra_seen, definitions,
                   form_of_map, alt_variant_map, alt_spellings_by_base,
                   extra_targets, output_words, output, missing, held,
                   f_word, f_text, walker_vars, template_vars>>

NextForm == ResolveForm

SpecForm == InitForm /\ [][NextForm]_vars

-----------------------------------------------------------------------------
(* The bracket scanner on its own: _extract_template at every opener of     *)
(* every text of at most MaxPieces pieces                                     *)

MaxPieces == 5      \* longest text given to a template function, in pieces

ScanPieces == {"{{", "}}", "}", "a"}

\* the concatenations of at most n pieces
RECURSIVE Concatenations(_, _)
Concatenations(pieces, n) ==
    IF n = 0 THEN {""}
    ELSE LET shorter == Concatenations(pieces, n - 1)
         IN shorter \cup {s \o p : s \in shorter, p \in pieces}

ScanTexts == Concatenations(ScanPieces, MaxPieces)

Openers(text) == {i \in 1..Len(text) : startswith_at(text, "{{", i)}

\* the other variables while a template function is studied on its own
OnlyTemplates(at) ==
    /\ words = <<>> /\ dump = <<>> /\ pc = at /\ idx = 0 /\ passes = 0
    /\ targets = {} /\ seen = {} /\ extra_seen = {}
    /\ definitions = EmptyMap /\ form_of_map = EmptyMap
    /\ alt_variant_map = EmptyMap /\ alt_spellings_by_base = EmptyMap
    /\ extra_targets = {} /\ output_words = <<>> /\ output = "" /\ missing = {}
    /\ held = {}
    /\ WalkerIdle /\ FormIdle

\* the call _extract_template(text, start), as _expand_templates makes it
InitScan ==
    /\ s_text \in ScanTexts
    /\ s_start \in Openers(s_text)
    /\ s_idx = s_start /\ s_depth = 0 /\ s_steps = 0
    /\ s_result = Running
    /\ t_text = "" /\ t_result = ""
    /\ OnlyTemplates("scanning")

\* one iteration of the while loop
ScanIterate ==
    /\ pc = "scanning"
    /\ s_idx <= Len(s_text)
    /\ LET n == scan_iteration(s_text, s_start, s_idx, s_depth)
       IN /\ s_idx' = n.idx
          /\ s_depth' = n.depth
          /\ s_result' = n.result
          /\ pc' = IF n.result.returned THEN "scanned" ELSE "scanning"
    /\ s_steps' = s_steps + 1
    /\ UNCHANGED <<words, dump, idx, passes, targets, seen, extra_seen, definitions,
                   form_of_map, alt_variant_map, alt_spellings_by_base,
                   extra_targets, output_words, output, missing, held,
                   walker_vars, form_vars, s_text, s_start, t_text, t_result>>

\* the loop condition fails: return None, None
ScanFallOff ==
    /\ pc = "scanning"
    /\ s_idx > Len(s_text)
    /\ s_result' = Returned(Unterminated)
    /\ pc' = "scanned"
    /\ UNCHANGED <<words, dump, idx, passes, targets, seen, extra_seen, definitions,
                   form_of_map, alt_variant_map, alt_spellings_by_base,
                   extra_targets, output_words, output, missing, held,
                   walker_vars, form_vars, s_text, s_start, s_idx, s_depth,
                   s_steps, t_text, t_result>>

NextScan == ScanIterate \/ ScanFallOff

SpecScan == InitScan /\ [][NextScan]_vars

-----------------------------------------------------------------------------
(* The splitter on its own: _split_template_parts on every template body of *)
(* at most MaxPieces pieces                                                 *)

SplitPieces == {"{{", "}}", "[[", "]]", "|", "a"}
SplitTexts ==
    Concatenations(SplitPieces, MaxPieces)
        \cup {"foo|[[a|b]]|bar", " a | | b ", "a|{{b|[[c|d]]}} e"}

InitSplit ==
    /\ t_text \in SplitTexts
    /\ t_result = ""
    /\ ScannerIdle
    /\ OnlyTemplates("splitting")

\* what a template function leaves alone
TemplateFrame ==
    UNCHANGED <<words, dump, idx, passes, targets, seen, extra_seen, definitions,
                form_of_map, alt_variant_map, alt_spellings_by_base,
                extra_targets, output_words, output, missing, held,
                walker_vars, form_vars, scanner_vars, t_text>>

\* the call _split_template_parts(content)
SplitParts ==
    /\ pc = "splitting"
    /\ t_result' = split_template_parts(t_text)
    /\ pc' = "split"
    /\ TemplateFrame

NextSplit == SplitParts

SpecSplit == InitSplit /\ [][NextSplit]_vars

-----------------------------------------------------------------------------
(* The expander on its own: _expand_templates on every text of at most      *)
(* MaxPieces pieces and on nests of at most MaxNest templates               *)

MaxNest == 4        \* deepest nest of templates

ExpandPieces == {"{{l|", "{{z|", "{{", "}}", "|", "c"}

\* "{{l|{{l| ... c ... }}}}", n templates deep
RECURSIVE Nest(_, _)
Nest(name, n) == IF n = 0 THEN "c" ELSE "{{" \o name \o "|" \o Nest(name, n - 1) \o "}}"

ExpandTexts ==
    Concatenations(ExpandPieces, MaxPieces)
        \cup {Nest(name, n) : name \in {"l", "z"}, n \in 1..MaxNest}
        \cup {"x{{a|{{b}}}}y", "{{z of|c}}", "{{z of}}", "{{Z|a=c|t= {{l|w:c}}}}",
              "{{l|en|w:c|d}}", "a {{z|{{l|c}} d", "{{{{b}}"}

InitExpand ==
    /\ t_text \in ExpandTexts
    /\ t_result = ""
    /\ ScannerIdle
    /\ OnlyTemplates("expanding")

\* the call _expand_templates(text)
ExpandTemplates ==
    /\ pc = "expanding"
    /\ LET r == expand_call(t_text, 1)
       IN /\ t_result' = r
          /\ pc' = IF r.raised THEN "raised" ELSE "expanded"
    /\ TemplateFrame

NextExpand == ExpandTemplates

SpecExpand == InitExpand /\ [][NextExpand]_vars

-----------------------------------------------------------------------------
(* The cleaner on its own: _clean_wikitext on every gloss of at most        *)
(* MaxPieces pieces                                                         *)

CleanPieces == {"{{l|", "{{", "}}", "c", " ", "."}
CleanTexts ==
    Concatenations(CleanPieces, MaxPieces)
        \cup {Nest("l", n) \o " word" : n \in 1..MaxNest}
        \cup {"A {{l|cat}} , or {{z|c}} kitten }}."}

InitClean ==
    /\ t_text \in CleanTexts
    /\ t_result = ""
    /\ ScannerIdle
    /\ OnlyTemplates("cleaning")

\* the call _clean_wikitext(text)
CleanWikitext ==
    /\ pc = "cleaning"
    /\ LET r == clean_call(t_text, 1)
       IN /\ t_result' = r
          /\ pc' = IF r.raised THEN "raised" ELSE "cleaned"
    /\ TemplateFrame

NextClean == CleanWikitext

SpecClean == InitClean /\ [][NextClean]_vars

-----------------------------------------------------------------------------
(* The parser and the renderer on their own: _parse_template and            *)
(* _render_template on every template of at most MaxParams parameters       *)

MaxParams == 3      \* most parameters of a template

TemplateNames == {"z", "plural of", " Alt Sp ", "short for", "zed of"}
ParamPool == {"c", "en", "English ", "w:e", "a=1", "a=", " A = 2 ",
              "{{l|d|t=c}}", "[[a=b|c]]"}

TemplateTexts ==
    {join("|", <<name>> \o params) :
        name \in TemplateNames,
        params \in UNION {[1..n -> ParamPool] : n \in 0..MaxParams}}

InitTemplate ==
    /\ t_text \in TemplateTexts
    /\ t_result = ""
    /\ ScannerIdle
    /\ OnlyTemplates("template")

\* the call _parse_template(content)
ParseTemplate ==
    /\ pc = "template"
    /\ t_result' = parse_template(t_text, 1)
    /\ pc' = "parsed"
    /\ TemplateFrame

\* the call _render_template(content)
RenderTemplate ==
    /\ pc = "template"
    /\ t_result' = render_template(t_text, 1)
    /\ pc' = IF t_result'.raised THEN "raised" ELSE "rendered"
    /\ TemplateFrame

NextTemplate == ParseTemplate \/ RenderTemplate

SpecTemplate == InitTemplate /\ [][NextTemplate]_vars

-----------------------------------------------------------------------------
(* The writer on its own: write_output for one word with at most MaxEntries *)
(* entries                                                                  *)

MaxEntries == 2     \* most entries of the word

EntryTexts == {"(intransitive) To sleep.", "(transitive) To move.",
               "(Transitive, ditransitive) To give.", "(ditransitive) To hand.",
               "(rare) To go.", "To be (intransitive).", "(transitive To x."}
EntryPool == {"english", "translingual"} \X {"verb", "noun"} \X EntryTexts

InitWrite ==
    /\ words = <<"run">> /\ dump = <<>> /\ pc = "writing" /\ idx = 0 /\ passes = 1
    /\ targets = {"run"} /\ seen = {"run"} /\ extra_seen = {}
    /\ \E entries \in UNION {[1..n -> EntryPool] : n \in 1..MaxEntries} :
           definitions = ("run" :> entries)
    /\ form_of_map = EmptyMap
    /\ alt_variant_map = EmptyMap /\ alt_spellings_by_base = EmptyMap
    /\ extra_targets = {} /\ output_words = <<"run">> /\ output = "" /\ missing = {}
    /\ held = {}
    /\ WalkerIdle /\ FormIdle /\ TemplateIdle

\* the call write_output(output_path, output_words, definitions, alt_spellings_by_base)
WriteFile ==
    /\ pc = "writing"
    /\ output' = write_output(output_words, definitions, alt_spellings_by_base)
    /\ pc' = "written"
    /\ UNCHANGED <<words, dump, idx, passes, targets, seen, extra_seen, definitions,
                   form_of_map, alt_variant_map, alt_spellings_by_base,
                   extra_targets, output_words, missing, held,
                   walker_vars, form_vars, template_vars>>

NextWrite == WriteFile

SpecWrite == InitWrite /\ [][NextWrite]_vars

-----------------------------------------------------------------------------
(* Properties of a run of the pipeline (Spec), read off the output file     *)

Done == pc = "done"

\* the lines of the output file and the first " | "-separated field of a line
OutputLines == splitlines(output)
FirstField(line) ==
    LET seps == {i \in 1..Len(line) : startswith_at(line, " | ", i)}
    IN IF seps = {} THEN line ELSE SubSeq(line, 1, SetMin(seps) - 1)
\* the first fields of the lines of the file, and the lines a word heads
Heads == [i \in 1..Len(OutputLines) |-> FirstField(OutputLines[i])]
LinesFor(h, w) == {i \in 1..Len(h) : h[i] = w}
HasLine(h, w) == LinesFor(h, w) # {}

\* the pages of the dump with the key k, and the place of a page in the dump
PagesKeyed(k) == {i \in 1..Len(dump) : ~untitled(dump[i]) /\ page_key(dump[i]) = k}
PlaceOf(page) == CHOOSE i \in 1..Len(dump) : dump[i] = page

PageCatsPlural == Page("cats", NounSection \o "# Plural of cat.")
PageCatLemma == Page("cat", NounSection \o "# A small domesticated feline.")
PageCatPlural == Page("cat", NounSection \o "# Plural of kat.")
PageCatsMany ==
    Page("Cats", NounSection \o "# Plural of zebra.\n# Plural of anteater.\n# A musical.")
PageKat == Page("kat", NounSection \o "# Alternative spelling of cat.\n# A  shrub .")

\* the input holds W = "cats" and L = "cat", in either order; the only page of
\* W says "Plural of cat." and the only page of L holds the gloss G
RedirectCase ==
    /\ Range(words) = {"cats", "cat"}
    /\ PagesKeyed("cats") # {} /\ \A i \in PagesKeyed("cats") : dump[i] = PageCatsPlural
    /\ PagesKeyed("cat") # {} /\ \A i \in PagesKeyed("cat") : dump[i] = PageCatLemma

\* C1: with the inflected word "cats" and its lemma "cat" both in the input (in
\* either order) and the pages "cats" ("Plural of cat.") and "cat" (gloss G) in
\* the dump (in either order), the output has exactly one line whose first field
\* is "cat", that line contains "noun: G", and no line has the first field "cats".
C1_EndToEndRedirect ==
    (Done /\ RedirectCase) =>
        LET h == Heads IN
        /\ Cardinality(LinesFor(h, "cat")) = 1
        /\ \A i \in LinesFor(h, "cat") :
               Contains(OutputLines[i], "noun: A small domesticated feline.")
        /\ LinesFor(h, "cats") = {}

\* a finished run of the case: the lemma's page comes before the page of the
\* inflected word, and the inflected word comes first in the input
C1_Witness ==
    /\ Done /\ RedirectCase
    /\ words = <<"cats", "cat">>
    /\ PlaceOf(PageCatLemma) < PlaceOf(PageCatsPlural)
    /\ output = "cat | noun: A small domesticated feline.\n"

\* the input is [A] with A = "cats"; page A points to B = "cat", page B points
\* to C = "kat", and the dump holds the three pages in some order
ChainCase ==
    /\ words = <<"cats">>
    /\ PagesKeyed("cats") # {} /\ \A i \in PagesKeyed("cats") : dump[i] = PageCatsPlural
    /\ PagesKeyed("cat") # {} /\ \A i \in PagesKeyed("cat") : dump[i] = PageCatPlural
    /\ PagesKeyed("kat") # {} /\ \A i \in PagesKeyed("kat") : dump[i] = PageKat

\* C is discovered in the first scan exactly when page B is streamed after page A
DiscoveredInPass1 == PlaceOf(PageCatsPlural) < PlaceOf(PageCatPlural)

Retained(page) ==
    {e \in Range(definitions_for_page[page]) : alt_variant_base[e] = ""}

\* C3 (as stated): for every input word w, in any letter case, and every page of
\* the dump whose title equals w when both are lowercased, the page is processed
\* and its definitions are recorded where the output line of w takes them from.
C3_CaseInsensitiveMatch ==
    Done =>
        \A i \in 1..Len(words), j \in 1..Len(dump) :
            (/\ ~untitled(dump[j]) /\ dump[j].has_text
             /\ lower(words[i]) = lower(strip(dump[j].title))) =>
                /\ page_key(dump[j]) \in seen
                /\ \A e \in Retained(dump[j]) :
                       SeqContains(Get(definitions, words[i], <<>>), e)

\* the relations, as sets of lemmas and of base spellings, of an input word
Lemmas(w) == Get(form_of_map, w, {})
AltBases(w) == Get(alt_variant_map, w, {})
Smallest(S) == CHOOSE m \in S : \A y \in S \ {m} : str_less(m, y)

\* b is the word the output loop puts in the place of the input word v
ChosenFor(b, v) ==
    \/ Lemmas(v) # {} /\ b = Smallest(Lemmas(v))
    \/ Lemmas(v) = {} /\ AltBases(v) # {} /\ b = Smallest(AltBases(v))
ChosenForSome(b) == \E j \in 1..Len(words) : ChosenFor(b, words[j])

\* w has a definition that is not an inflection gloss
OwnDefinitions(w) ==
    \E e \in Range(Get(definitions, w, <<>>)) : ~extract_form_of_base(w, e[3]).found

C6_DeterministicLemma ==
    Done =>
        LET h == Heads IN
        \A i \in 1..Len(words) :
            Cardinality(Lemmas(words[i])) > 1 =>
                /\ HasLine(h, Smallest(Lemmas(words[i])))
                /\ \A y \in Lemmas(words[i]) \ {Smallest(Lemmas(words[i]))} :
                       HasLine(h, y) =>
                           \E j \in 1..Len(words) :
                               \/ words[j] = y /\ Lemmas(y) = {}
                               \/ ChosenFor(y, words[j])
                /\ Lemmas(words[i]) = {"zebra", "anteater"} =>
                       (HasLine(h, "anteater") /\ ~HasLine(h, "zebra"))

\* a finished run in which "zebra" was recorded before "anteater" (the page
\* lists it first) and the only line is the one of "anteater"
C6_Witness ==
    /\ Done
    /\ words = <<"cats">>
    /\ Lemmas("cats") = {"zebra", "anteater"}
    /\ output_words = <<"anteater">>
    /\ output = "anteater\n"

\* C7: a key counted as missing was a target during a whole scan (an input word
\* is one for the whole first scan, a key of the frontier for the whole second
\* one), and no page of the dump has it as its lowercased title; the output
\* file is written all the same, with one line for each word of output_words and
\* every input word represented by its own line or by the line of one of its
\* lemmas or base spellings.
C7_MissingSoundness ==
    Done =>
        LET h == Heads IN
        /\ \A k \in missing :
               /\ k \in Range(words) \/ (passes = 2 /\ k \in targets)
               /\ PagesKeyed(k) = {}
        /\ h = output_words
        /\ \A i \in 1..Len(words) :
               \/ HasLine(h, words[i])
               \/ \E b \in Lemmas(words[i]) \cup AltBases(words[i]) : HasLine(h, b)

\* a finished run with a missing key of the frontier ("cat", looked for by the
\* second scan) and the line of another input word written
C7_Witness ==
    /\ Done
    /\ passes = 2
    /\ words = <<"cats", "kat">>
    /\ missing = {"cat"}
    /\ "cat" \in extra_targets
    /\ HasLine(Heads, "kat")

\* some step of the run can be taken
CanStep ==
    \/ Scanning
    \/ pc \in {"pass1", "pass2"} /\ idx = Len(dump)
    \/ pc = "output"

\* C8 (as stated): the dump is streamed at most twice, the second time only for
\* keys of the frontier, and the run then reaches the output stage: it never
\* stops anywhere else.
C8_BoundedPasses ==
    /\ passes <= 2
    /\ passes = 2 => (targets # {} /\ targets \subseteq extra_targets)
    /\ ~CanStep => pc = "done"

\* C9 (as stated): a page record without a title element or without a text
\* element is skipped: the scan goes on to the next page, no error is raised
\* and the accumulators are left as they are.
C9_SkipIncompletePage ==
    [][(/\ Scanning
        /\ (~dump[idx + 1].has_title \/ ~dump[idx + 1].has_text)) =>
           /\ idx' = idx + 1
           /\ pc' = pc
           /\ UNCHANGED <<definitions, form_of_map, alt_variant_map,
                          alt_spellings_by_base, extra_targets, targets>>]_vars

-----------------------------------------------------------------------------
(* Properties of the section walker (SpecWalk)                              *)

FirstPlace(seq, x) == SetMin({i \in 1..Len(seq) : seq[i] = x})

\* C10: the entry list of a page never holds the same (language, part of
\* speech, text) triple twice, it holds every triple that reached it, and its
\* entries are in the order in which they first reached it.
C10_DedupFirstSeen ==
    /\ \A i, j \in 1..Len(w_definitions) :
           i # j => w_definitions[i] # w_definitions[j]
    /\ Range(w_definitions) = Range(w_emitted)
    /\ \A i, j \in 1..Len(w_definitions) :
           i < j => FirstPlace(w_emitted, w_definitions[i])
                        < FirstPlace(w_emitted, w_definitions[j])

\* a page read to its end in which a triple came twice, with another one in
\* between, and in which the same triple twice gave a list of length 1 before
C10_Witness ==
    /\ pc = "idle"
    /\ w_idx = Len(w_lines)
    /\ Len(w_emitted) = 3
    /\ w_emitted[1] = w_emitted[3]
    /\ w_emitted[1] # w_emitted[2]
    /\ w_definitions = <<w_emitted[1], w_emitted[2]>>

-----------------------------------------------------------------------------
(* Properties of the form resolver (SpecForm)                               *)

PastKinds ==
    {"past tense", "past participle", "simple past", "simple past and past participle"}
ThirdPersonKinds == {"third-person singular", "third person singular"}

\* C4 (as stated): a relation of a past-tense or past-participle kind is given
\* only for a source word that ends in "ed", and a third-person-singular
\* relation only for a source word that ends in "s".
C4_SuffixGating ==
    (pc = "resolved" /\ f_result.found) =>
        /\ f_result.form_type \in PastKinds => endswith(f_word, "ed")
        /\ f_result.form_type \in ThirdPersonKinds => endswith(f_word, "s")

-----------------------------------------------------------------------------
(* Template claims *)

\* the places the brace scanner passes through after i: pairs <<position, depth>>,
\* reading "{{" as an opener, "}}" inside a template as a closer, and anything
\* else as one character
RECURSIVE Boundaries(_, _, _)
Boundaries(text, i, depth) ==
    IF i > Len(text) THEN {}
    ELSE IF startswith_at(text, "{{", i)
         THEN {<<i + 2, depth + 1>>} \cup Boundaries(text, i + 2, depth + 1)
    ELSE IF depth > 0 /\ startswith_at(text, "}}", i)
         THEN {<<i + 2, depth - 1>>} \cup Boundaries(text, i + 2, depth - 1)
    ELSE {<<i + 1, depth>>} \cup Boundaries(text, i + 1, depth)

\* the positions just past a closer that brings the depth back to 0
Closers(text, start) == {b[1] : b \in {x \in Boundaries(text, start, 0) : x[2] = 0}}

\* C13: called at an opener, the scanner returns the position just past the
\* first closer that brings the depth back to 0, with the text strictly
\* between the outer braces; it reports "unterminated" exactly when there is
\* no such closer; and it never makes more loop iterations than the text has
\* characters.
C13_ScannerContract ==
    pc \in {"scanning", "scanned"} =>
        /\ s_steps <= Len(s_text)
        /\ s_result.returned =>
              LET c == Closers(s_text, s_start)
                  r == s_result.value
              IN IF c = {} THEN ~r.found
                 ELSE /\ r.found
                      /\ r.end = SetMin(c)
                      /\ SubSeq(s_text, r.end - 2, r.end - 1) = "}}"
                      /\ r.content = SubSeq(s_text, s_start + 2, r.end - 3)

\* a nested template was scanned to its end, and a scan fell off the text
C13_Witness ==
    /\ pc = "scanned" /\ s_result.value.found
    /\ s_result.value.content = "{{a}}"
C13_WitnessUnterminated ==
    pc = "scanned" /\ ~s_result.value.found /\ s_text = "{{{{a}}"

\* the bars of content that lie outside every template and every link, in the
\* left-to-right reading of "{{", "}}", "[[" and "]]"
RECURSIVE TopLevelBars(_, _, _, _)
TopLevelBars(content, i, depth, link_depth) ==
    IF i > Len(content) THEN {}
    ELSE IF startswith_at(content, "{{", i)
    THEN TopLevelBars(content, i + 2, depth + 1, link_depth)
    ELSE IF startswith_at(content, "}}", i) /\ depth > 0
    THEN TopLevelBars(content, i + 2, depth - 1, link_depth)
    ELSE IF startswith_at(content, "[[", i)
    THEN TopLevelBars(content, i + 2, depth, link_depth + 1)
    ELSE IF startswith_at(content, "]]", i) /\ link_depth > 0
    THEN TopLevelBars(content, i + 2, depth, link_depth - 1)
    ELSE (IF CharAt(content, i) = "|" /\ depth = 0 /\ link_depth = 0 THEN {i} ELSE {})
             \cup TopLevelBars(content, i + 1, depth, link_depth)

\* the pieces of content between the positions of cuts, in order
RECURSIVE CutAt(_, _, _)
CutAt(content, from, cuts) ==
    IF cuts = {} THEN <<SubSeq(content, from, Len(content))>>
    ELSE LET c == SetMin(cuts)
         IN <<SubSeq(content, from, c - 1)>> \o CutAt(content, c + 1, cuts \ {c})

\* every opener of s is closed inside s
Closed(s) == Len(s) + 1 \in TopLevelBars(s \o "|", 1, 0, 0)

\* C11: the parts are the stripped, non-empty stretches between the bars that
\* lie at brace depth 0 and link depth 0, and no other bar separates: a bar
\* inside a balanced link or template stays inside its part, so the parts of a
\* body whose links and templates are all closed are closed themselves, and
\* 'foo|[[a|b]]|bar' has exactly the parts foo, [[a|b]], bar.
C11_SplitRespectsNesting ==
    pc = "split" =>
        LET bars == TopLevelBars(t_text, 1, 0, 0)
            stretches == CutAt(t_text, 1, bars)
        IN /\ t_result = SelectSeq([k \in 1..Len(stretches) |-> strip(stretches[k])],
                                   NonEmpty)
           /\ Closed(t_text) => \A k \in 1..Len(t_result) : Closed(t_result[k])
           /\ t_text = "foo|[[a|b]]|bar" => t_result = <<"foo", "[[a|b]]", "bar">>

\* a body with a bar inside a link inside a template, and bars outside
C11_Witness ==
    pc = "split" /\ t_text = "a|{{b|[[c|d]]}} e" /\ Len(t_result) = 2

\* text is one template from its first to its last character
SingleTemplate(text) ==
    /\ startswith(text, "{{")
    /\ extract_template(text, 1).found
    /\ extract_template(text, 1).end = Len(text) + 1
\* the lower-cased name of the template that text is
TemplateName(text) ==
    LET parts == split_template_parts(extract_template(text, 1).content)
    IN IF parts = <<>> THEN "" ELSE lower(strip(parts[1]))
NoFamily(name) ==
    /\ name \notin LINK_TEMPLATES \cup DOMAIN DEFINITION_TEMPLATES
    /\ ~endswith(name, " of")
Expanded == pc \in {"expanded", "raised"}

\* C12: expansion is depth-first (the parameter of '{{l|{{l|c}}}}' reaches the
\* outer template already expanded, and in 'x{{a|{{b}}}}y' the whole span is
\* dropped), and a template whose name matches no family and does not end in
\* ' of' renders to the empty string whatever its parameters are.
C12_DepthFirstSafeDefault ==
    Expanded =>
        /\ SingleTemplate(t_text) /\ NoFamily(TemplateName(t_text)) => t_result = Ok("")
        /\ t_text = Nest("l", 2) => t_result = Ok("c")
        /\ t_text = "x{{a|{{b}}}}y" => t_result = Ok("xy")

\* the same, for the calls that return
C12_WhenReturned ==
    (Expanded /\ ~t_result.raised) =>
        /\ SingleTemplate(t_text) /\ NoFamily(TemplateName(t_text)) => t_result = Ok("")
        /\ t_text = Nest("l", 2) => t_result = Ok("c")
        /\ t_text = "x{{a|{{b}}}}y" => t_result = Ok("xy")

\* C14: a text without '{{' is returned unchanged, so expanding it again
\* changes nothing; and when the first opener of a text is not terminated the
\* returned text keeps it as it is written: it begins with the text up to and
\* including that opener.
C14_PlainTextPassthrough ==
    (Expanded /\ ~t_result.raised) =>
        /\ ~Contains(t_text, "{{") =>
              /\ t_result.value = t_text
              /\ expand_call(t_result.value, 1) = t_result
        /\ Openers(t_text) # {} =>
              LET first == SetMin(Openers(t_text))
              IN ~extract_template(t_text, first).found =>
                    startswith(t_result.value, SubSeq(t_text, 1, first + 1))

\* the first half of C14 alone
C14_PlainTextOnly ==
    (Expanded /\ ~Contains(t_text, "{{")) =>
        t_result = Ok(t_text) /\ expand_call(t_result.value, 1) = t_result

\* C16: expansion never raises: every call of the expander returns a text,
\* however deep the templates of its input are nested.
C16_ExpansionNeverRaises == Expanded => ~t_result.raised

\* C15: whatever the gloss, malformed or unterminated markup included, the
\* cleaned text holds neither '{{' nor '}}'.
C15_NoTemplateBraces ==
    pc = "cleaned" => ~Contains(t_result.value, "{{") /\ ~Contains(t_result.value, "}}")

\* the half of C15 about openers
C15_NoOpeners == pc = "cleaned" => ~Contains(t_result.value, "{{")

\* the glosses "<labels>Inflection of <term>" and "<labels>infl of <term>"
\* whose term holds a lemma
GenericInflection(text) ==
    \E l \in FormLabels, p \in {"Inflection", "infl"}, t \in FormTerms \ {"."} :
        text = l \o p \o " of " \o t

\* C17: for a generic inflection gloss the kind is decided by the spelling of
\* the source word alone: ending in 'ing' it is a present participle, else
\* ending in 'ed' a past tense, else ending in 's' a third-person singular,
\* and any other word yields no relation.
C17_GenericInflection ==
    (pc = "resolved" /\ GenericInflection(f_text)) =>
        IF endswith(f_word, "ing")
        THEN f_result.found /\ f_result.form_type = "present participle"
        ELSE IF endswith(f_word, "ed")
        THEN f_result.found /\ f_result.form_type = "past tense"
        ELSE IF endswith(f_word, "s")
        THEN f_result.found /\ f_result.form_type = "third-person singular"
        ELSE f_result = NoForm

\* 'jumped' under a labelled 'infl of run.' is resolved as a past tense of run
C17_Witness ==
    /\ pc = "resolved" /\ f_word = "jumped" /\ f_text = "(obsolete) infl of run."
    /\ f_result = [found |-> TRUE, form_type |-> "past tense", lemma |-> "run"]

-----------------------------------------------------------------------------
(* Properties of the section walker over headings (SpecSection)             *)

\* what the lines of SectionLinePool are, read by hand
LanguageOf == ("==English==" :> "english") @@ ("== French ==" :> "french")
PosOf == ("===Noun===" :> "noun") @@ ("====Verb====" :> "verb")
GlossOf == ("# A cat." :> "A cat.")

\* the last language heading among the first k lines (0: none), the language
\* it opens, and the last vocabulary sub-heading after it
LastLanguageLine(lines, k) ==
    SetMax({0} \cup {i \in 1..k : lines[i] \in DOMAIN LanguageOf})
LanguageAt(lines, k) ==
    IF LastLanguageLine(lines, k) = 0 THEN None
    ELSE LanguageOf[lines[LastLanguageLine(lines, k)]]
VocabularyLines(lines, k) ==
    {i \in (LastLanguageLine(lines, k) + 1)..k : lines[i] \in DOMAIN PosOf}
PosAt(lines, k) ==
    IF LanguageAt(lines, k) \notin TARGET_LANGUAGES \/ VocabularyLines(lines, k) = {}
    THEN None
    ELSE PosOf[lines[SetMax(VocabularyLines(lines, k))]]
\* the entries the gloss lines among the first k lines are to give, in order
RECURSIVE EntriesUpTo(_, _)
EntriesUpTo(lines, k) ==
    IF k = 0 THEN <<>>
    ELSE IF lines[k] \in DOMAIN GlossOf /\ LanguageAt(lines, k) \in TARGET_LANGUAGES
    THEN Append(EntriesUpTo(lines, k - 1),
                <<LanguageAt(lines, k),
                  IF PosAt(lines, k) = None THEN "unknown" ELSE PosAt(lines, k),
                  GlossOf[lines[k]]>>)
    ELSE EntriesUpTo(lines, k - 1)

\* C18: after a level-2 heading the language is the heading's text in lower
\* case with its spaces normalised, whether it is a target language or not,
\* and the part of speech is None; so the part of speech is None until a
\* sub-heading follows that heading, and a gloss that comes before any such
\* sub-heading is recorded as 'unknown', whatever was set before the heading.
C18_LanguageHeading ==
    pc = "idle" =>
        /\ current_language = LanguageAt(w_lines, w_idx)
        /\ (w_idx > 0 /\ w_lines[w_idx] \in DOMAIN LanguageOf) => current_pos = None
        /\ VocabularyLines(w_lines, w_idx) = {} =>
              /\ current_pos = None
              /\ (w_idx > 0 /\ w_lines[w_idx] \in DOMAIN GlossOf
                    /\ current_language \in TARGET_LANGUAGES) =>
                    w_emitted[Len(w_emitted)][2] = "unknown"

\* a part of speech set under one heading, a second language heading, and a
\* gloss recorded as 'unknown'
C18_Witness ==
    /\ pc = "idle" /\ w_idx = 4
    /\ w_lines = <<"==English==", "===Noun===", "==English==", "# A cat.">>
    /\ w_emitted = <<<<"english", "unknown", "A cat.">>>>

\* C19: the part of speech is that of the most recent sub-heading (of level 3
\* or deeper) that stands under a target language, after its language
\* heading, and is in the part-of-speech vocabulary; any other sub-heading
\* changes neither it nor the language; and every entry carries the part of
\* speech in force at its gloss line, or 'unknown'.
C19_SubheadingFrame ==
    pc = "idle" =>
        /\ current_pos = PosAt(w_lines, w_idx)
        /\ (w_idx > 0 /\ w_lines[w_idx] \notin DOMAIN LanguageOf) =>
              current_language = LanguageAt(w_lines, w_idx - 1)
        /\ Len(w_emitted) = Len(EntriesUpTo(w_lines, w_idx))
        /\ \A j \in 1..Len(w_emitted) :
              w_emitted[j][2] = EntriesUpTo(w_lines, w_idx)[j][2]

\* a level-4 vocabulary heading replaced the level-3 one; the sub-heading
\* outside the vocabulary changed nothing
C19_Witness ==
    /\ pc = "idle" /\ w_idx = 4
    /\ w_lines = <<"==English==", "====Verb====", "===Usage notes===", "# A cat.">>
    /\ w_emitted = <<<<"english", "verb", "A cat.">>>>

\* C20: exactly the gloss lines under a target language give an entry: none
\* before the first language heading or under another language, none for a
\* '#' line whose content begins with '*' or ':' or whose cleaned text has no
\* letter or digit; and every entry has a target language, a part of speech of
\* the vocabulary or 'unknown', and a text with a letter or digit.
C20_GlossScoping ==
    pc = "idle" =>
        /\ w_emitted = EntriesUpTo(w_lines, w_idx)
        /\ \A j \in 1..Len(w_emitted) :
              /\ w_emitted[j][1] \in TARGET_LANGUAGES
              /\ w_emitted[j][2] \in POS_KEYS \cup {"unknown"}
              /\ HAS_ALNUM(w_emitted[j][3])
        /\ Range(w_definitions) = Range(w_emitted)

\* a gloss before any heading and a quotation, a note-like line under English
\* gave nothing; the gloss under English gave the only entry
C20_Witness ==
    /\ pc = "idle" /\ w_idx = 4
    /\ w_lines = <<"# A cat.", "==English==", "#* a quote", "# A cat.">>
    /\ w_definitions = <<<<"english", "unknown", "A cat.">>>>

-----------------------------------------------------------------------------
(* Properties of the parser and of the renderer (SpecTemplate)              *)

\* the parameters of a template text, in order, and its name
ParamsOf(text) == Tail(split_template_parts(text))
NameOf(text) == lower(strip(Head(split_template_parts(text))))

\* a "=" of the part stands before every "{{" and "[[" of the part
EqualsBeforeNesting(part) ==
    \E i \in 1..Len(part) :
        /\ CharAt(part, i) = "="
        /\ \A j \in 1..(i - 1) :
               ~startswith_at(part, "{{", j) /\ ~startswith_at(part, "[[", j)

\* what a positional part of ParamPool leaves in the positional sequence once
\* it is expanded and trimmed, the language codes are dropped and a wiki
\* prefix is removed
PositionalValue ==
    ("c" :> <<"c">>) @@ ("en" :> <<>>) @@ ("English" :> <<>>) @@ ("w:e" :> <<"e">>)
        @@ ("{{l|d|t=c}}" :> <<"d">>) @@ ("[[a=b|c]]" :> <<"[[a=b|c]]">>)

\* the key and the value of a named part of ParamPool
NamedValue ==
    ("a=1" :> <<"a", "1">>) @@ ("a=" :> <<"a", "">>) @@ ("A = 2" :> <<"a", "2">>)

RECURSIVE PositionalOf(_)
PositionalOf(parts) ==
    IF parts = <<>> THEN <<>>
    ELSE (IF EqualsBeforeNesting(Head(parts)) THEN <<>> ELSE PositionalValue[Head(parts)])
             \o PositionalOf(Tail(parts))

NamedOf(parts) == SelectSeq(parts, EqualsBeforeNesting)

\* every "=" of every parameter stands outside nested templates and links
PlainEquals(text) ==
    \A k \in 1..Len(ParamsOf(text)) :
        Contains(ParamsOf(text)[k], "=") => EqualsBeforeNesting(ParamsOf(text)[k])

\* C21: a part is a named parameter only when a "=" occurs in it before any
\* nested "{{" or "[["; a part whose only "=" lies inside a nested template
\* or link is positional and keeps its place in the positional sequence
C21_NamedBeforeNesting ==
    pc = "parsed" =>
        /\ ~t_result.raised
        /\ t_result.value.positional = PositionalOf(ParamsOf(t_text))
        /\ DOMAIN t_result.value.named
               \subseteq {NamedValue[part][1] : part \in Range(NamedOf(ParamsOf(t_text)))}

\* C21, where it holds: the templates none of whose parameters has a "="
\* inside a nested template or link
C21_PlainEqualsOnly ==
    pc = "parsed" /\ PlainEquals(t_text) =>
        /\ ~t_result.raised
        /\ t_result.value.positional = PositionalOf(ParamsOf(t_text))
        /\ DOMAIN t_result.value.named
               \subseteq {NamedValue[part][1] : part \in Range(NamedOf(ParamsOf(t_text)))}

\* C22: when a key occurs in several named parameters of a template, the
\* mapping holds the value of the last occurrence of the key, whatever the
\* values are, empty ones included (a key that is absent reads as "")
C22_LastWriteWins ==
    pc = "parsed" /\ NamedOf(ParamsOf(t_text)) # <<>> =>
        LET occurrences == NamedOf(ParamsOf(t_text))
            last == NamedValue[occurrences[Len(occurrences)]]
        IN /\ ~t_result.raised
           /\ Get(t_result.value.named, last[1], "") = last[2]

\* C22, where it holds: the last occurrence with a value that is not empty
\* once trimmed wins
C22_LastNonEmptyWins ==
    pc = "parsed" =>
        LET written == SelectSeq(NamedOf(ParamsOf(t_text)),
                                 LAMBDA part : NamedValue[part][2] # "")
        IN /\ ~t_result.raised
           /\ IF written = <<>> THEN "a" \notin DOMAIN t_result.value.named
              ELSE Get(t_result.value.named, "a", "") = NamedValue[written[Len(written)]][2]

\* the labels of the names of TemplateNames whose family phrase is "<Label> of"
FamilyLabel == ("plural of" :> "Plural") @@ ("alt sp" :> "Alternative spelling")

\* C23: a template of the definitional family renders to "<Label> of <t>",
\* t being the first positional parameter left once the values en, eng and
\* english are dropped, followed by " (e1; e2; ...)" for the further ones
\* when there are any, and to the empty string when none is left
C23_DefinitionalRendering ==
    pc = "rendered" /\ NameOf(t_text) \in DOMAIN FamilyLabel /\ PlainEquals(t_text) =>
        LET remaining == PositionalOf(ParamsOf(t_text))
        IN t_result =
               Ok(IF remaining = <<>> THEN ""
                  ELSE FamilyLabel[NameOf(t_text)] \o " of " \o remaining[1]
                           \o (IF Len(remaining) > 1
                               THEN " (" \o join("; ", Tail(remaining)) \o ")"
                               ELSE ""))

C23_Witness ==
    /\ pc = "rendered"
    /\ t_text = "plural of|en|w:e|c"
    /\ t_result = Ok("Plural of e (c)")

C23_WitnessEmpty ==
    pc = "rendered" /\ t_text = " Alt Sp |English |en|a=1" /\ t_result = Ok("")

-----------------------------------------------------------------------------
(* The calls of _expand_templates inside one another (SpecExpand)           *)

\* the contents of the templates that the loop of _expand_templates renders
\* from position i on
RECURSIVE TemplatesOf(_, _)
TemplatesOf(text, i) ==
    IF i > Len(text) THEN {}
    ELSE IF startswith_at(text, "{{", i) /\ extract_template(text, i).found
    THEN {extract_template(text, i).content}
             \cup TemplatesOf(text, extract_template(text, i).end)
    ELSE TemplatesOf(text, i + 1)

\* the texts that _parse_template hands to _expand_templates for a template
ArgumentsOf(content) ==
    LET parts == split_template_parts(content)
    IN {IF Contains(parts[k], "=") THEN SplitOnce(parts[k], "=")[2] ELSE parts[k] :
           k \in 2..Len(parts)}

\* the texts that the call on text hands to its recursive calls
NestedArguments(text) == UNION {ArgumentsOf(content) : content \in TemplatesOf(text, 1)}

\* every call made for text, d calls below the first one, with its depth
RECURSIVE ExpandCalls(_, _)
ExpandCalls(text, d) ==
    {<<d, text>>} \cup UNION {ExpandCalls(a, d + 1) : a \in NestedArguments(text)}

\* the deepest nesting of "{{" in the text
NestingDepth(text) == SetMax({b[2] : b \in Boundaries(text, 1, 0)} \cup {0})

\* C24: for every text the expansion returns; each recursive expansion of a
\* parameter is applied to a text strictly shorter than the text of the call
\* that makes it; and no call is deeper below the first one than the deepest
\* nesting of templates in the input
C24_ExpansionTerminates ==
    Expanded =>
        /\ ~t_result.raised
        /\ \A c \in ExpandCalls(t_text, 0) :
               /\ c[1] <= NestingDepth(t_text)
               /\ \A a \in NestedArguments(c[2]) : Len(a) < Len(c[2])

\* C24 without the return: the arguments get shorter and the depth of the
\* calls is bounded by the nesting of the text
C24_CallTree ==
    Expanded =>
        \A c \in ExpandCalls(t_text, 0) :
            /\ c[1] <= NestingDepth(t_text)
            /\ \A a \in NestedArguments(c[2]) : Len(a) < Len(c[2])

-----------------------------------------------------------------------------
(* Properties of the scans of the dump (Spec), continued                    *)

\* C25: in both scans every page element is cleared before the next page is
\* read, whichever way the page is handled (no title, title not a target,
\* nothing retained, fully processed): while a scan goes on no element is
\* uncleared, and at no time is more than one
C25_PageRelease ==
    /\ pc \in {"pass1", "pass2", "output", "done"} => held = {}
    /\ Cardinality(held) <= 1

\* a second scan that went through an untitled page, a page that is no
\* target and a processed page
C25_Witness ==
    /\ pc = "pass2" /\ idx = 3 /\ held = {}
    /\ \E i, j, k \in 1..3 :
           /\ untitled(dump[i])
           /\ ~untitled(dump[j]) /\ page_key(dump[j]) \notin targets
           /\ ~untitled(dump[k]) /\ page_key(dump[k]) \in extra_seen

\* a page of which nothing is retained has been handled
C25_WitnessNothingRetained ==
    /\ pc = "pass1" /\ idx > 0 /\ held = {}
    /\ \E i \in 1..idx :
           /\ ~untitled(dump[i]) /\ page_key(dump[i]) \in seen
           /\ page_key(dump[i]) \notin DOMAIN definitions

-----------------------------------------------------------------------------
(* Properties of the writer (SpecWrite)                                     *)

\* the flags that stand as labels in the leading parenthetical of the texts
\* of EntryTexts, comma-joined
FlagsOf ==
    ("(intransitive) To sleep." :> "intransitive")
        @@ ("(transitive) To move." :> "transitive")
        @@ ("(Transitive, ditransitive) To give." :> "transitive, ditransitive")
        @@ ("(ditransitive) To hand." :> "ditransitive")
        @@ ("(rare) To go." :> "") @@ ("To be (intransitive)." :> "")
        @@ ("(transitive To x." :> "")

\* the field of an entry whose label carries the flags of FlagsOf
FieldOf(entry) ==
    (IF entry[1] # "english" THEN entry[1] \o " " ELSE "")
        \o (IF entry[2] = "verb" /\ FlagsOf[entry[3]] # ""
            THEN "verb (" \o FlagsOf[entry[3]] \o ")" ELSE entry[2])
        \o ": " \o entry[3]

\* the entries whose leading parenthetical has neither the label
\* intransitive nor the label ditransitive
NoLongerFlag(entries) ==
    \A i \in 1..Len(entries) :
        entries[i][2] = "verb" =>
            ~Contains(FlagsOf[entries[i][3]], "intransitive")
                /\ ~Contains(FlagsOf[entries[i][3]], "ditransitive")

\* C27: the label of a verb entry is "verb (f1, f2, ...)", the flags being
\* exactly those of transitive, intransitive and ditransitive that stand as
\* labels in the leading parenthetical of the gloss ("(intransitive)" gives
\* "verb (intransitive)"); a verb gloss without such a flag and an entry of
\* another part of speech get no annotation
C27_TransitivityLabel ==
    pc = "written" =>
        output = join(" | ", <<"run">> \o [i \in 1..Len(definitions["run"]) |->
                                              FieldOf(definitions["run"][i])]) \o "\n"

\* C27, where it holds: the glosses without the labels intransitive and
\* ditransitive
C27_TransitiveOnly ==
    pc = "written" /\ NoLongerFlag(definitions["run"]) =>
        output = join(" | ", <<"run">> \o [i \in 1..Len(definitions["run"]) |->
                                              FieldOf(definitions["run"][i])]) \o "\n"

\* a is a prefix of b; no element stands twice in seq
IsPrefix(a, b) == Len(a) <= Len(b) /\ SubSeq(b, 1, Len(a)) = a
NoRepeat(seq) == \A i, j \in 1..Len(seq) : i # j => seq[i] # seq[j]

\* C26: in both scans the entry sequence of a key only grows at its end: the
\* sequence before a step is a prefix of the one after it, no triple stands
\* twice in it (also when several pages have the same key), and no lemma is
\* ever taken out of the form relations of a key
C26_AppendOnly ==
    [][/\ \A k \in DOMAIN definitions :
              k \in DOMAIN definitions' /\ IsPrefix(definitions[k], definitions'[k])
       /\ \A k \in DOMAIN definitions' : NoRepeat(definitions'[k])
       /\ \A k \in DOMAIN form_of_map :
              k \in DOMAIN form_of_map' /\ form_of_map[k] \subseteq form_of_map'[k]]_vars

\* the three pages with the key "kat" are processed: each triple stands once,
\* in the order in which it was first met
C26_Witness ==
    /\ words = <<"kat">> /\ Len(dump) = 3 /\ idx = 3
    /\ dump[1] = Page("kat", NounSection \o "# A shrub.")
    /\ dump[2] = Page("Kat", NounSection \o "# A tree.\n# Plural of ka.")
    /\ dump[3] = Page("KAT", NounSection \o "# A shrub.\n# A tree.")
    /\ definitions["kat"] =
           <<<<"english", "noun", "A shrub.">>,
             <<"english", "noun", "A tree.">>,
             <<"english", "noun", "Plural of ka.">>>>
    /\ form_of_map["kat"] = {"ka"}

\* C28: while the second scan runs extra_targets and the form relations are
\* not modified and the target set of the scan stays what it was set to, the
\* extra targets without definitions at the end of the first scan; a page of
\* the second scan only adds entries and alternative-spelling links
C28_Pass2Frame ==
    [][/\ (pc = "pass1" /\ pc' = "pass2") =>
              /\ targets' = extra_targets \ DOMAIN definitions
              /\ UNCHANGED <<extra_targets, form_of_map, definitions>>
       /\ pc = "pass2" =>
              /\ UNCHANGED <<extra_targets, form_of_map, targets, words, dump, seen,
                             output_words, output, missing>>
                     \/ (pc' = "output" /\ UNCHANGED <<extra_targets, form_of_map, targets>>)
              /\ \A k \in DOMAIN definitions :
                     k \in DOMAIN definitions' /\ IsPrefix(definitions[k], definitions'[k])
              /\ \A k \in DOMAIN alt_variant_map :
                     k \in DOMAIN alt_variant_map'
                         /\ alt_variant_map[k] \subseteq alt_variant_map'[k]
              /\ \A k \in DOMAIN alt_spellings_by_base :
                     k \in DOMAIN alt_spellings_by_base'
                         /\ alt_spellings_by_base[k] \subseteq alt_spellings_by_base'[k]]_vars

\* the second scan has processed the page that says cat is the plural of kat,
\* and kat is no lemma of cat and no target
C28_Witness ==
    /\ pc = "pass2" /\ idx > 0
    /\ "cat" \in targets /\ "cat" \in extra_seen
    /\ <<"english", "noun", "Plural of kat.">> \in Range(Get(definitions, "cat", <<>>))
    /\ "cat" \notin DOMAIN form_of_map
    /\ "kat" \notin targets \cup extra_targets

\* the second scan has processed a page with an alternative-spelling gloss
C28_WitnessLink ==
    /\ pc = "pass2" /\ idx > 0
    /\ "kat" \in targets /\ "kat" \in extra_seen
    /\ "cat" \in Get(alt_variant_map, "kat", {})

\* the word L of the alternative-spelling glosses of the pool's pages
AltBaseOf == ("Alternative spelling of cat." :> "cat") @@ ("Alternate form of cat." :> "cat")

\* the alternative-spelling glosses of a page, and whether it has no other
AltGlosses(page) ==
    {e[3] : e \in Range(definitions_for_page[page])} \cap DOMAIN AltBaseOf
OnlyAltGlosses(page) ==
    /\ definitions_for_page[page] # <<>>
    /\ \A e \in Range(definitions_for_page[page]) : e[3] \in DOMAIN AltBaseOf

\* the step handles the page dump[idx + 1] as a target page
Processing ==
    /\ Scanning /\ idx' = idx + 1
    /\ ~untitled(dump[idx + 1])
    /\ page_key(dump[idx + 1]) \in targets
    /\ dump[idx + 1].has_text

\* the links of the alternative-spelling glosses of the page are there
LinksAdded ==
    \A g \in AltGlosses(dump[idx + 1]) :
        /\ AltBaseOf[g] \in Get(alt_variant_map', page_key(dump[idx + 1]), {})
        /\ page_key(dump[idx + 1]) \in Get(alt_spellings_by_base', AltBaseOf[g], {})

NoAltGlossStored ==
    \A k \in DOMAIN definitions' :
        \A e \in Range(definitions'[k]) : e[3] \notin DOMAIN AltBaseOf

\* C29: a gloss "alternative / alternate spelling / form of L" is never
\* stored as an entry; it adds L to the alternative spellings of the page's
\* key and the key to the backlinks of L and, in the first scan, L to the
\* targets (and to extra_targets when it was no target yet); in the second
\* scan it leaves targets and extra_targets alone.  A target page that has no
\* other gloss leaves the definitions as they are, so a key with such pages
\* only gets no record, and the key is marked as seen and is not missing.
C29_AltGlossesAreLinks ==
    /\ [][Processing =>
             /\ NoAltGlossStored
             /\ LinksAdded
             /\ \A g \in AltGlosses(dump[idx + 1]) :
                    IF pc = "pass1"
                    THEN /\ AltBaseOf[g] \in targets'
                         /\ AltBaseOf[g] \notin targets => AltBaseOf[g] \in extra_targets'
                    ELSE UNCHANGED <<targets, extra_targets>>
             /\ OnlyAltGlosses(dump[idx + 1]) =>
                    /\ UNCHANGED <<definitions, form_of_map>>
                    /\ page_key(dump[idx + 1]) \in seen' \cup extra_seen']_vars
    /\ [](Done =>
             \A k \in seen :
                 (\A i \in PagesKeyed(k) : dump[i].has_text /\ OnlyAltGlosses(dump[i]))
                     => k \notin DOMAIN definitions /\ k \notin missing)

\* the page "Kat", which has no other gloss, was processed for the input kat
C29_Witness ==
    /\ Done /\ words = <<"kat">>
    /\ PagesKeyed("kat") # {} /\ \A i \in PagesKeyed("kat") : OnlyAltGlosses(dump[i])
    /\ "kat" \in seen /\ "kat" \notin DOMAIN definitions /\ "kat" \notin missing
    /\ Get(alt_variant_map, "kat", {}) = {"cat"}
    /\ Get(alt_spellings_by_base, "cat", {}) = {"kat"}

\* C29 as it is worded: the gloss only adds the two links (the other glosses
\* of the pool's pages with such a gloss have no form relation, so nothing
\* else of the page touches the targets)
C29_AsStated ==
    [][Processing /\ AltGlosses(dump[idx + 1]) # {} =>
          /\ NoAltGlossStored
          /\ LinksAdded
          /\ UNCHANGED <<targets, extra_targets>>]_vars

\* the words the turn of the input word w puts in the output, in order
Emitted(w) ==
    IF Lemmas(w) # {} THEN <<Smallest(Lemmas(w))>>
    ELSE IF AltBases(w) # {}
    THEN <<Smallest(AltBases(w))>>
             \o (IF Get(definitions, w, <<>>) # <<>> THEN <<w>> ELSE <<>>)
    ELSE <<w>>

\* the place of the first input word whose turn emits x
FirstCause(x) == SetMin({k \in 1..Len(words) : x \in Range(Emitted(words[k]))})

\* C30: whatever the input list is (words repeated, several words with the
\* same lemma), no two lines of the output have the same first field, there
\* are as many lines as distinct emitted words, and the lines stand in the
\* order of the first input words that caused them
C30_UniqueOrderedLines ==
    Done =>
        /\ NoRepeat(Heads)
        /\ Range(Heads) = UNION {Range(Emitted(words[k])) : k \in 1..Len(words)}
        /\ Len(Heads) = Cardinality(UNION {Range(Emitted(words[k])) : k \in 1..Len(words)})
        /\ \A i, j \in 1..Len(Heads) :
               i < j => FirstCause(Heads[i]) <= FirstCause(Heads[j])

\* two input words with the same lemma give one line
C30_Witness ==
    /\ Done /\ words = <<"cats", "cat">>
    /\ Lemmas("cats") = {"cat"} /\ Lemmas("cat") = {}
    /\ Heads = <<"cat">>

\* a repeated input word gives its lines once
C30_WitnessRepeated ==
    /\ Done /\ words = <<"kat", "kat">>
    /\ Heads = <<"cat", "kat">>

=============================================================================
